---- MODULE Spec2Model ----
(***************************************************************************)
(* icap-logger: the ICAP ingest pipeline of one accepted connection.       *)
(*                                                                         *)
(*   readICAPMessage (src/server.go)   the framing-aware reader            *)
(*   handleConn      (src/server.go)   the connection handler              *)
(*   parseICAP, splitEncapsulated (src/unnamed/part_000, second file)      *)
(*   decodeChunked, isBinary, sanitizeBody (src/body.go)                   *)
(*                                                                         *)
(* Go strings and byte slices are TLA+ strings; a byte is a string of      *)
(* length one.  Positions are 1-based here and 0-based in the source.      *)
(***************************************************************************)
EXTENDS Integers, Sequences, FiniteSets, TLC

(***************************************************************************)
(* Go's strings package, as the source uses it.                            *)
(***************************************************************************)
At(s, i) == SubSeq(s, i, i)

Drop(s, n) == SubSeq(s, n + 1, Len(s))

Take(s, n) == SubSeq(s, 1, n)

Min(a, b) == IF a < b THEN a ELSE b

\* strings.HasPrefix
HasPrefix(s, p) == Len(s) >= Len(p) /\ Take(s, Len(p)) = p

\* strings.HasSuffix
HasSuffix(s, p) == Len(s) >= Len(p) /\ Drop(s, Len(s) - Len(p)) = p

\* strings.Index, 1-based; 0 when sub does not occur in s
Index(s, sub) ==
    LET hits == {i \in 1..(Len(s) - Len(sub) + 1) : SubSeq(s, i, i + Len(sub) - 1) = sub}
    IN IF hits = {} THEN 0 ELSE CHOOSE i \in hits : \A j \in hits : i <= j

\* strings.Contains
Contains(s, sub) == Index(s, sub) # 0

UpperLetters == "ABCDEFGHIJKLMNOPQRSTUVWXYZ"

LowerLetters == "abcdefghijklmnopqrstuvwxyz"

LowerByte(c) ==
    LET i == Index(UpperLetters, c) IN IF c = "" \/ i = 0 THEN c ELSE At(LowerLetters, i)

UpperByte(c) ==
    LET i == Index(LowerLetters, c) IN IF c = "" \/ i = 0 THEN c ELSE At(UpperLetters, i)

RECURSIVE ToLower(_)
\* strings.ToLower (ASCII)
ToLower(s) ==
    IF Len(s) <= 1 THEN LowerByte(s)
    ELSE ToLower(Take(s, Len(s) \div 2)) \o ToLower(Drop(s, Len(s) \div 2))

\* strings.EqualFold (ASCII)
EqualFold(a, b) == ToLower(a) = ToLower(b)

\* unicode.IsSpace over ASCII: the bytes strings.TrimSpace and strings.Fields cut
SpaceBytes == {" ", "\t", "\n", "\r", "\f"}

\* the first position of s whose byte satisfies neither: Len(s) + 1 when none
FirstOutside(s, cut) ==
    LET stops == {i \in 1..Len(s) : At(s, i) \notin cut}
    IN IF stops = {} THEN Len(s) + 1 ELSE CHOOSE i \in stops : \A j \in stops : i <= j

\* number of leading bytes of s that are in cut
LeadLen(s, cut) == FirstOutside(s, cut) - 1

\* number of leading bytes of s that are not in stop
LeadLenUntil(s, stop) ==
    LET stops == {i \in 1..Len(s) : At(s, i) \in stop}
    IN IF stops = {} THEN Len(s) ELSE (CHOOSE i \in stops : \A j \in stops : i <= j) - 1

\* number of trailing bytes of s that are in cut
TrailLen(s, cut) ==
    LET stops == {i \in 1..Len(s) : At(s, i) \notin cut}
    IN IF stops = {} THEN Len(s)
       ELSE Len(s) - (CHOOSE i \in stops : \A j \in stops : i >= j)

\* the cutset "\r\n"
CRLFBytes == {"\r", "\n"}

\* strings.TrimRight(s, "\r\n")
TrimRightCRLF(s) == Take(s, Len(s) - TrailLen(s, CRLFBytes))

\* strings.TrimSpace
TrimSpace(s) ==
    LET a == LeadLen(s, SpaceBytes)
    IN IF a = Len(s) THEN "" ELSE SubSeq(s, a + 1, Len(s) - TrailLen(s, SpaceBytes))

RECURSIVE SplitBy(_, _)
\* strings.Split(s, sep) for a non-empty sep
SplitBy(s, sep) ==
    LET i == Index(s, sep)
    IN IF i = 0 THEN <<s>>
       ELSE <<Take(s, i - 1)>> \o SplitBy(Drop(s, i + Len(sep) - 1), sep)

\* strings.SplitN(s, sep, 2)
SplitN2(s, sep) ==
    LET i == Index(s, sep)
    IN IF i = 0 THEN <<s>> ELSE <<Take(s, i - 1), Drop(s, i + Len(sep) - 1)>>

RECURSIVE Fields(_)
\* strings.Fields
Fields(s) ==
    LET t == Drop(s, LeadLen(s, SpaceBytes))
        n == LeadLenUntil(t, SpaceBytes)
    IN IF t = "" THEN <<>> ELSE <<Take(t, n)>> \o Fields(Drop(t, n))

(***************************************************************************)
(* int64.  A chunk size is whatever strconv.ParseInt(s, 16, 64) accepts,   *)
(* up to 2^63-1, and the reader adds it to the running total.  A value is  *)
(* kept in two's complement as three limbs, h*2^48 + m*2^24 + l with       *)
(* 0 <= m, l < 2^24 and -2^15 <= h < 2^15, so that sums wrap as int64      *)
(* sums do.                                                                *)
(***************************************************************************)
Limb == 4096 * 4096

Wrap16(x) == ((x + 32768) % 65536) - 32768

Zero64 == [h |-> 0, m |-> 0, l |-> 0]

\* -x in two's complement
Neg64(a) ==
    LET b1 == IF a.l = 0 THEN 0 ELSE 1
        b2 == IF a.m = 0 /\ b1 = 0 THEN 0 ELSE 1
    IN [h |-> Wrap16(0 - a.h - b2), m |-> (Limb - a.m - b1) % Limb, l |-> (Limb - a.l) % Limb]

\* int64(n) for a model integer n, |n| < 2^31
I64(n) ==
    IF n >= 0 THEN [h |-> 0, m |-> n \div Limb, l |-> n % Limb]
    ELSE Neg64([h |-> 0, m |-> (0 - n) \div Limb, l |-> (0 - n) % Limb])

\* a + b with int64 wrap-around
Add64(a, b) ==
    LET l2 == a.l + b.l
        m2 == a.m + b.m + (l2 \div Limb)
    IN [h |-> Wrap16(a.h + b.h + (m2 \div Limb)), m |-> m2 % Limb, l |-> l2 % Limb]

Lt64(a, b) ==
    \/ a.h < b.h
    \/ a.h = b.h /\ a.m < b.m
    \/ a.h = b.h /\ a.m = b.m /\ a.l < b.l

Gt64(a, b) == Lt64(b, a)

\* the value as a model integer, for 0 <= a < 2^30
IsSmall64(a) == a.h = 0 /\ a.m < 64

ToInt(a) == a.m * Limb + a.l

\* runtime.maxAlloc on amd64 (1 << 48): makeslice panics beyond it
MaxAlloc64 == [h |-> 1, m |-> 0, l |-> 0]

\* make([]byte, n) panics: "makeslice: len out of range"
MakeSlicePanics(n) == Lt64(n, Zero64) \/ Gt64(n, MaxAlloc64)

HexDigits == "0123456789abcdef"

DecDigits == "0123456789"

\* the value of one digit in the given alphabet, -1 when c is no digit
DigitVal(c, digits) == Index(digits, LowerByte(c)) - 1

DecBytes == {At(DecDigits, i) : i \in 1..Len(DecDigits)}

IsDec(c) == c \in DecBytes

RECURSIVE ParseUintHex(_, _)
\* strconv.ParseUint(s, 16, 64) from an accumulator: the magnitude as limbs with
\* h unsigned (0..65535), or ok = FALSE (syntax or range error)
ParseUintHex(s, acc) ==
    IF s = "" THEN [ok |-> TRUE, v |-> acc]
    ELSE LET d == DigitVal(At(s, 1), HexDigits)
             l2 == acc.l * 16 + d
             m2 == acc.m * 16 + (l2 \div Limb)
             h2 == acc.h * 16 + (m2 \div Limb)
         IN IF d < 0 \/ h2 >= 65536 THEN [ok |-> FALSE, v |-> Zero64]
            ELSE ParseUintHex(Drop(s, 1), [h |-> h2, m |-> m2 % Limb, l |-> l2 % Limb])

\* the int64 of a parsed magnitude u under its sign, or ok = FALSE (range error)
Signed64(neg, u) ==
    IF ~u.ok THEN u
    ELSE IF ~neg THEN (IF u.v.h >= 32768 THEN [ok |-> FALSE, v |-> Zero64] ELSE u)
    ELSE IF u.v.h > 32768 \/ (u.v.h = 32768 /\ (u.v.m # 0 \/ u.v.l # 0))
         THEN [ok |-> FALSE, v |-> Zero64]
         ELSE [ok |-> TRUE, v |-> Neg64([h |-> Wrap16(u.v.h), m |-> u.v.m, l |-> u.v.l])]

\* the magnitude of a literal without its sign
Magnitude(body) ==
    IF body = "" THEN [ok |-> FALSE, v |-> Zero64] ELSE ParseUintHex(body, Zero64)

\* strconv.ParseInt(s, 16, 64): [ok, v]; ok = FALSE is err # nil
ParseIntHex(s) ==
    Signed64(s # "" /\ At(s, 1) = "-",
             Magnitude(IF s # "" /\ At(s, 1) \in {"+", "-"} THEN Drop(s, 1) ELSE s))

RECURSIVE DecValue(_, _)
\* the value of a string of decimal digits (at most MaxOffsetDigits of them)
DecValue(s, acc) ==
    IF s = "" THEN acc ELSE DecValue(Drop(s, 1), acc * 10 + DigitVal(At(s, 1), DecDigits))

\* the longest decimal literal this model reads (a model integer holds it)
MaxOffsetDigits == 9

\* fmt.Sscanf(s, "%d", &offset) with offset preset to 0: leading spaces are
\* skipped, an optional sign and the leading digits are read; on any failure
\* offset keeps 0
SscanfD(s) ==
    LET t == Drop(s, LeadLen(s, SpaceBytes))
        signed == t # "" /\ At(t, 1) \in {"+", "-"}
        u == IF signed THEN Drop(t, 1) ELSE t
        n == Min(LeadLen(u, DecBytes), MaxOffsetDigits)
        v == DecValue(Take(u, n), 0)
    IN IF n = 0 THEN 0 ELSE IF signed /\ At(t, 1) = "-" THEN 0 - v ELSE v

RECURSIVE Itoa(_)
\* strconv.Itoa for n >= 0
Itoa(n) == IF n < 10 THEN At(DecDigits, n + 1) ELSE Itoa(n \div 10) \o At(DecDigits, (n % 10) + 1)

RECURSIVE Hex(_)
\* strconv.FormatInt(n, 16) for n >= 0
Hex(n) == IF n < 16 THEN At(HexDigits, n + 1) ELSE Hex(n \div 16) \o At(HexDigits, (n % 16) + 1)

(***************************************************************************)
(* The wire.  A client sends `stream` and then either closes or stays      *)
(* silent until the read deadline fires: a read that needs a byte past     *)
(* the end of `stream` returns a non-nil error either way.                 *)
(*                                                                         *)
(* A message is a sequence of parts (lines, header blocks, chunk size      *)
(* lines, chunk data); its bytes are their concatenation.  Well-formed     *)
(* messages are built as RFC 3507 lays them out, the Encapsulated offsets  *)
(* computed from the sections' lengths; the others are written out.        *)
(***************************************************************************)
CRLF == "\r\n"

RECURSIVE Concat(_)
Concat(parts) == IF parts = <<>> THEN "" ELSE Head(parts) \o Concat(Tail(parts))

RECURSIVE JoinWith(_, _)
\* strings.Join
JoinWith(ss, sep) ==
    IF ss = <<>> THEN ""
    ELSE IF Len(ss) = 1 THEN ss[1] ELSE ss[1] \o sep \o JoinWith(Tail(ss), sep)

RECURSIVE EncTokens(_, _)
\* name=offset for each header section, offsets running from off
EncTokens(secs, off) ==
    IF secs = <<>> THEN <<>>
    ELSE <<secs[1].name \o "=" \o Itoa(off)>> \o EncTokens(Tail(secs), off + Len(secs[1].bytes))

RECURSIVE SecBytes(_)
SecBytes(secs) == IF secs = <<>> THEN <<>> ELSE <<secs[1].bytes>> \o SecBytes(Tail(secs))

RECURSIVE ChunkParts(_)
\* each chunk as two parts: its size line, then its data and CRLF
ChunkParts(chunks) ==
    IF chunks = <<>> THEN <<>>
    ELSE <<Hex(Len(chunks[1])) \o CRLF, chunks[1] \o CRLF>> \o ChunkParts(Tail(chunks))

\* a chunked body: the chunks, the zero chunk, the empty line after it
BodyParts(chunks) == ChunkParts(chunks) \o <<"0" \o CRLF, CRLF>>

\* The well-formed message with the given start line, header sections
\* (<<[name, bytes], ...>>) and body: bodyName is req-body, res-body or opt-body
\* with the chunks of its body, or null-body.
WellFormed(start, secs, bodyName, chunks) ==
    LET hdrLen == Len(Concat(SecBytes(secs)))
        enc == JoinWith(EncTokens(secs, 0) \o <<bodyName \o "=" \o Itoa(hdrLen)>>, ", ")
    IN [parts |-> <<start \o CRLF, "Host: h" \o CRLF, "Encapsulated: " \o enc \o CRLF, CRLF>>
                  \o SecBytes(secs)
                  \o (IF bodyName = "null-body" THEN <<>> ELSE BodyParts(chunks)),
        wellFormed |-> TRUE,
        body |-> bodyName]

\* a message written out part by part
Raw(parts) == [parts |-> parts, wellFormed |-> FALSE, body |-> "raw"]

ReqmodLine == "REQMOD icap://h/reqmod ICAP/1.0"

RespmodLine == "RESPMOD icap://h/respmod ICAP/1.0"

OptionsLine == "OPTIONS icap://h/reqmod ICAP/1.0"

OptionsRespLine == "OPTIONS icap://h/RespMod ICAP/1.0"

GetHdr == [name |-> "req-hdr", bytes |-> "GET /i?q=1 HTTP/1.1\r\nHost: e.com\r\nAccept: */*\r\n\r\n"]

PostHdr == [name |-> "req-hdr", bytes |-> "POST /s HTTP/1.1\r\nHost: e.com\r\n\r\n"]

ConnectHdr == [name |-> "req-hdr", bytes |-> "CONNECT e.com:443 HTTP/1.1\r\nHost: e.com:443\r\n\r\n"]

\* a request line with no protocol version: not an HTTP/1.1 request
BadReqHdr == [name |-> "req-hdr", bytes |-> "GET /i\r\nHost: e.com\r\n\r\n"]

OkHdr == [name |-> "res-hdr", bytes |-> "HTTP/1.1 200 OK\r\nContent-Type: text/plain\r\n\r\n"]

TunnelPlaceholder == "[tunneled: HTTPS traffic, body not inspectable]"

\* the most chunks a well-formed body carries
MaxChunks == 2

\* the second chunk's data reads like the end of a body: only its size line tells
ChunkData == <<"hello", "0\r\n\r\n", "!">>

\* the bodies: 0..MaxChunks chunks taken in order from ChunkData
Bodies == {SubSeq(ChunkData, 1, n) : n \in 0..Min(MaxChunks, Len(ChunkData))}

WellFormedMessages ==
    {[parts |-> <<OptionsLine \o CRLF, "Host: h" \o CRLF, CRLF>>, wellFormed |-> TRUE, body |-> "none"],
     WellFormed(OptionsRespLine, <<>>, "null-body", <<>>),
     WellFormed(ReqmodLine, <<GetHdr>>, "null-body", <<>>),
     WellFormed(ReqmodLine, <<ConnectHdr>>, "null-body", <<>>),
     WellFormed(ReqmodLine, <<BadReqHdr>>, "null-body", <<>>),
     WellFormed(RespmodLine, <<GetHdr, OkHdr>>, "null-body", <<>>),
     WellFormed(ReqmodLine, <<ConnectHdr>>, "req-body", <<TunnelPlaceholder>>)}
    \cup {WellFormed(ReqmodLine, <<PostHdr>>, "req-body", b) : b \in Bodies}
    \cup {WellFormed(ReqmodLine, <<ConnectHdr>>, "req-body", b) : b \in Bodies}
    \cup {WellFormed(ReqmodLine, <<>>, "req-body", b) : b \in Bodies}
    \cup {WellFormed(RespmodLine, <<OkHdr>>, "res-body", b) : b \in Bodies}
    \cup {WellFormed(RespmodLine, <<GetHdr, OkHdr>>, "res-body", b) : b \in Bodies}
    \cup {WellFormed(OptionsLine, <<>>, "opt-body", b) : b \in Bodies}

\* a body whose chunk-size lines carry chunk extensions
WithExtensions ==
    Raw(<<ReqmodLine \o CRLF, "ENCAPSULATED: REQ-HDR=0, REQ-BODY=33" \o CRLF, CRLF,
          PostHdr.bytes, "5;x=1" \o CRLF, "hello" \o CRLF, "0; ieof" \o CRLF, CRLF>>)

\* Messages a client can send that RFC 3507 does not allow, or that carry
\* unusual but legal syntax (a chunk extension, an upper-case header name).
OtherMessages ==
    {WithExtensions,
     Raw(<<ReqmodLine \o CRLF, "Encapsulated: req-hdr=0, req-body=33" \o CRLF, CRLF,
           PostHdr.bytes, "-3" \o CRLF, "hello" \o CRLF, "0" \o CRLF, CRLF>>),
     Raw(<<ReqmodLine \o CRLF, "Encapsulated: req-hdr=0, req-body=33" \o CRLF, CRLF,
           PostHdr.bytes, "-1" \o CRLF, "h", "0" \o CRLF, CRLF>>),
     Raw(<<ReqmodLine \o CRLF, "Encapsulated: req-hdr=0, req-body=33" \o CRLF, CRLF,
           PostHdr.bytes, "5" \o CRLF, "hello" \o CRLF, "7fffffffffffffff" \o CRLF, "x">>),
     Raw(<<ReqmodLine \o CRLF, "Encapsulated: req-hdr=0, req-body=33" \o CRLF, CRLF,
           PostHdr.bytes, "5" \o CRLF, "hello" \o CRLF, "ffffffffffffff" \o CRLF, "x">>),
     Raw(<<ReqmodLine \o CRLF, "Encapsulated: req-hdr=0, req-body=33" \o CRLF, CRLF,
           PostHdr.bytes, "zz" \o CRLF, CRLF>>),
     Raw(<<ReqmodLine \o CRLF, "Encapsulated: req-hdr=-5, null-body=33" \o CRLF, CRLF,
           PostHdr.bytes>>),
     Raw(<<ReqmodLine \o CRLF, "Encapsulated: req-hdr=5, req-body=0" \o CRLF, CRLF,
           PostHdr.bytes, "0" \o CRLF, CRLF>>),
     Raw(<<ReqmodLine \o CRLF, "Encapsulated: req-hdr=0, req-body=999" \o CRLF, CRLF,
           PostHdr.bytes, "0" \o CRLF, CRLF>>),
     Raw(<<ReqmodLine \o CRLF, "Encapsulated: req-hdr=0, req-body=33, null-body=50" \o CRLF, CRLF,
           PostHdr.bytes>>),
     Raw(<<ReqmodLine \o CRLF, " " \o CRLF, "Encapsulated: req-hdr=0, null-body=33" \o CRLF, CRLF,
           PostHdr.bytes>>),
     Raw(<<ReqmodLine \o CRLF, "Encapsulated : req-hdr=0, null-body=33" \o CRLF, CRLF>>),
     Raw(<<"OPTIONS " \o CRLF, CRLF>>),
     Raw(<<" OPTIONS icap://h/respmod ICAP/1.0" \o CRLF, CRLF>>),
     Raw(<<CRLF>>),
     Raw(<<"REQMOD">>)}

\* the request header block of the REQMOD-with-body scenario (63 bytes)
SubmitHdr == "POST /submit HTTP/1.1\r\nHost: example.com\r\nContent-Length: 5\r\n\r\n"

\* a scenario message: one header section at offset 0, then a body of one
\* chunk declared at the given offset
Scenario(start, hdrName, hdr, bodyName, offset, data) ==
    [parts |-> <<start \o CRLF, "Host: localhost" \o CRLF,
                 "Encapsulated: " \o hdrName \o "=0, " \o bodyName \o "=" \o Itoa(offset) \o CRLF,
                 CRLF, hdr>> \o BodyParts(<<data>>),
     wellFormed |-> offset = Len(hdr),
     body |-> IF offset = Len(hdr) THEN bodyName ELSE "raw"]

\* REQMOD with body, its body declared at the given offset
ReqmodScenario(offset) ==
    Scenario("REQMOD icap://localhost:11344/reqmod ICAP/1.0",
             "req-hdr", SubmitHdr, "req-body", offset, "hello")

\* RESPMOD with body, its body declared at the given offset
RespmodScenario(offset) ==
    Scenario("RESPMOD icap://localhost:11344/respmod ICAP/1.0",
             "res-hdr", OkHdr.bytes, "res-body", offset, "world")

\* the two scenarios with the offsets their documents give (README.md:348)
\* and with the lengths of their header blocks
ScenarioMessages ==
    {ReqmodScenario(68), ReqmodScenario(Len(SubmitHdr)),
     RespmodScenario(38), RespmodScenario(Len(OkHdr.bytes))}

\* a RESPMOD with a request section, a response section and a body of one
\* chunk, its parts as given
Respmod(start, reqHdr, resHdr, sizeLine) ==
    [parts |-> <<start \o CRLF, "Host: h" \o CRLF,
                 "Encapsulated: req-hdr=0, res-hdr=" \o Itoa(Len(reqHdr))
                     \o ", res-body=" \o Itoa(Len(reqHdr) + Len(resHdr)) \o CRLF,
                 CRLF, reqHdr, resHdr,
                 sizeLine \o CRLF, "hello" \o CRLF, "0" \o CRLF, CRLF>>,
     wellFormed |-> FALSE, body |-> "raw"]

\* GetHdr with a protocol version that is none
BadVersionHdr == "GET /i?q=1 HTTP/x.1\r\nHost: e.com\r\nAccept: */*\r\n\r\n"

\* OkHdr with a status code that is none
BadStatusHdr == "HTTP/1.1 2x0 OK\r\nContent-Type: text/plain\r\n\r\n"

\* the message of Respmod with one part that does not parse: the start line,
\* the request section, the response section, the chunk size
Malformed(part) ==
    Respmod(IF part = "start" THEN "RESPMOD" ELSE RespmodLine,
            IF part = "req-hdr" THEN BadVersionHdr ELSE GetHdr.bytes,
            IF part = "res-hdr" THEN BadStatusHdr ELSE OkHdr.bytes,
            IF part = "size" THEN "z" ELSE IF part = "negative size" THEN "-3" ELSE "5")

\* the parts of a message that can fail to parse
MalformedParts == {"start", "req-hdr", "res-hdr", "size", "negative size"}

MalformedMessages == {Malformed(part) : part \in MalformedParts}

Messages == WellFormedMessages \cup OtherMessages \cup ScenarioMessages \cup MalformedMessages

Bytes(msg) == Concat(msg.parts)

\* what may follow a message on the stream
SuffixBytes == {"0", "\n"}

\* the longest suffix
MaxSuffixLen == 2

RECURSIVE StringsUpTo(_, _)
\* the strings over the alphabet of length at most n
StringsUpTo(alphabet, n) ==
    IF n = 0 THEN {""}
    ELSE LET shorter == StringsUpTo(alphabet, n - 1)
         IN shorter \cup {s \o c : s \in shorter, c \in alphabet}

Suffixes == StringsUpTo(SuffixBytes, MaxSuffixLen)

\* the cumulative length of the first k parts
PartEnd(msg, k) == Len(Concat(SubSeq(msg.parts, 1, k)))

\* how far from a part boundary a size ceiling is tried
Slack == 1

\* a ceiling no message of the model reaches
BigSize == 10 * 1024 * 1024

\* the ceilings tried against a message: around each part boundary, and BigSize
CeilingsFor(msg) ==
    {c \in {PartEnd(msg, k) + d : k \in 1..Len(msg.parts), d \in (0 - Slack)..Slack} : c > 0}
    \cup {BigSize}

(***************************************************************************)
(* bufio.Reader over a byte string: the reads the source performs.         *)
(***************************************************************************)
\* r.ReadString('\n') with p bytes of s already consumed: the line up to and
\* including the first '\n', or the rest of s and err when there is none
ReadString(s, p) ==
    LET rest == Drop(s, p)
        i == Index(rest, "\n")
    IN IF i = 0 THEN [line |-> rest, err |-> TRUE] ELSE [line |-> Take(rest, i), err |-> FALSE]

\* io.ReadFull(r, make([]byte, n)) with p bytes of s already consumed, n >= 0:
\* n bytes, or the fewer bytes left and err
ReadFull(s, p, n) ==
    LET rest == Drop(s, p)
    IN IF Len(rest) >= n THEN [data |-> Take(rest, n), err |-> FALSE]
       ELSE [data |-> rest, err |-> TRUE]

(***************************************************************************)
(* decodeChunked, isBinary, sanitizeBody (src/body.go).                    *)
(***************************************************************************)
RECURSIVE DecodeLoop(_, _, _)
\* the loop of decodeChunked with p bytes of data consumed and acc decoded:
\* [out, panic]; panic is make([]byte, size) refusing the length
DecodeLoop(data, p, acc) ==
    LET r == ReadString(data, p)
        line == TrimSpace(r.line)
        p1 == p + Len(r.line)
        size == ParseIntHex(line)
    IN IF r.err THEN [out |-> acc, panic |-> FALSE]
       ELSE IF line = "" THEN DecodeLoop(data, p1, acc)
       ELSE IF ~size.ok \/ size.v = Zero64 THEN [out |-> acc, panic |-> FALSE]
       ELSE IF MakeSlicePanics(size.v) THEN [out |-> acc, panic |-> TRUE]
       ELSE IF ~IsSmall64(size.v) \/ ReadFull(data, p1, ToInt(size.v)).err
            THEN [out |-> acc, panic |-> FALSE]
       ELSE LET n == ToInt(size.v)
                p2 == p1 + n
            IN DecodeLoop(data, p2 + Len(ReadString(data, p2).line), acc \o SubSeq(data, p1 + 1, p2))

\* a faulty decoder: the decoded body is trimmed of its white space
decodeChunkedTrimmed(data) ==
    [out |-> TrimSpace(DecodeLoop(data, 0, "").out), panic |-> DecodeLoop(data, 0, "").panic]

decodeChunked(data) == DecodeLoop(data, 0, "")

\* the bytes 0x01..0x08, 0x0e..0x1f and 0x7f, written out raw (0x00 cannot be)
CtlBytes == ""

\* the bytes isBinary counts: below 0x09, between 0x0d and 0x20 exclusive, 0x7f
NonPrintableBytes == {At(CtlBytes, i) : i \in 1..Len(CtlBytes)}

\* the number of bytes of s that are in set
CountBytes(s, set) == Cardinality({i \in 1..Len(s) : At(s, i) \in set})

\* a faulty classifier: tab, line feed and carriage return count as
\* non-printable
isBinaryCountingBlanks(data) ==
    LET sample == IF Len(data) > 512 THEN Take(data, 512) ELSE data
    IN IF Len(sample) = 0 THEN FALSE
       ELSE (CountBytes(sample, NonPrintableBytes \cup {"\t", "\n", "\r"}) * 100) \div Len(sample) > 10

isBinary(data) ==
    LET sample == IF Len(data) > 512 THEN Take(data, 512) ELSE data
    IN IF Len(sample) = 0 THEN FALSE
       ELSE (CountBytes(sample, NonPrintableBytes) * 100) \div Len(sample) > 10

\* a faulty sanitizer: the Content-Type is not looked at
sanitizeBodyIgnoringType(body, contentType) ==
    IF body = "" THEN ""
    ELSE IF isBinary(body) THEN "[binary: " \o Itoa(Len(body)) \o " bytes]"
    ELSE body

(***************************************************************************)
(* net/http as parseICAP uses it.  An http.Header is a sequence of         *)
(* <<key, value>> pairs in the order they were added, keys canonical.      *)
(***************************************************************************)
RECURSIVE CanonFrom(_, _)
\* textproto.CanonicalMIMEHeaderKey over letters, digits and '-': upper-case
\* the first letter and each letter after a '-', lower-case the others
CanonFrom(key, upper) ==
    IF key = "" THEN ""
    ELSE (IF upper THEN UpperByte(At(key, 1)) ELSE LowerByte(At(key, 1)))
         \o CanonFrom(Drop(key, 1), At(key, 1) = "-")

\* a key holding a space is left as it is
CanonicalKey(key) == IF Contains(key, " ") THEN key ELSE CanonFrom(key, TRUE)

\* http.Header.Add
HeaderAdd(h, key, val) == Append(h, <<CanonicalKey(key), val>>)

\* http.Header.Get: the first value of the key, "" when absent (or h is nil)
HeaderGet(h, key) ==
    LET hits == {i \in 1..Len(h) : h[i][1] = CanonicalKey(key)}
    IN IF hits = {} THEN "" ELSE h[CHOOSE i \in hits : \A j \in hits : i <= j][2]

\* delete(h, key)
HeaderDel(h, key) == SelectSeq(h, LAMBDA kv : kv[1] # key)

\* textproto.Reader.ReadLine: the line without its "\n" or "\r\n"
StripEOL(line) ==
    IF HasSuffix(line, "\r\n") THEN Take(line, Len(line) - 2)
    ELSE IF HasSuffix(line, "\n") THEN Take(line, Len(line) - 1) ELSE line

BlankBytes == {" ", "\t"}

\* strings.Trim(s, " \t")
TrimBlank(s) ==
    LET a == LeadLen(s, BlankBytes)
    IN IF a = Len(s) THEN "" ELSE SubSeq(s, a + 1, Len(s) - TrailLen(s, BlankBytes))

RECURSIVE ReadMIMEHeader(_, _, _)
\* textproto.Reader.ReadMIMEHeader with p bytes of b consumed: [ok, h].  The
\* block must end with an empty line; a line without a colon, with an empty
\* key or with a space in its key is malformed.  (Continuation lines, which
\* start with a blank, are taken as malformed.)
ReadMIMEHeader(b, p, h) ==
    LET r == ReadString(b, p)
        line == StripEOL(r.line)
        i == Index(line, ":")
        key == Take(line, i - 1)
    IN IF r.err THEN [ok |-> FALSE, h |-> h]
       ELSE IF line = "" THEN [ok |-> TRUE, h |-> h]
       ELSE IF i <= 1 \/ Contains(key, " ") \/ Contains(key, "\t") THEN [ok |-> FALSE, h |-> h]
       ELSE ReadMIMEHeader(b, p + Len(r.line), HeaderAdd(h, key, TrimBlank(Drop(line, i))))

\* http.ParseHTTPVersion: "HTTP/" digit "." digit
ValidHTTPVersion(proto) ==
    /\ Len(proto) = 8
    /\ Take(proto, 5) = "HTTP/"
    /\ IsDec(At(proto, 6)) /\ At(proto, 7) = "." /\ IsDec(At(proto, 8))

\* the bytes that are no token bytes: white space, separators, controls
NonTokenBytes ==
    SpaceBytes \cup NonPrintableBytes
    \cup {"(", ")", "<", ">", "@", ",", ";", ":", "\"", "/", "[", "]", "?", "=", "{", "}"}

\* http.validMethod: a non-empty token
ValidMethod(m) == m # "" /\ LeadLenUntil(m, NonTokenBytes) = Len(m)

NoRequest == [ok |-> FALSE, Method |-> "", Host |-> "", RequestURI |-> "", Header |-> <<>>]

\* url.ParseRequestURI and URL.RequestURI for the request targets of the model:
\* origin-form ("/path?query"), the authority of a CONNECT ("host:port"),
\* absolute-form ("http://host/path?query", "https://...") and "*":
\* [ok, host, uri]; an empty path is "/" in the uri
ParseTarget(method, target) ==
    IF target = "" THEN [ok |-> FALSE, host |-> "", uri |-> ""]
    ELSE IF At(target, 1) = "/" THEN [ok |-> TRUE, host |-> "", uri |-> target]
    ELSE IF method = "CONNECT" THEN [ok |-> TRUE, host |-> target, uri |-> "/"]
    ELSE IF target = "*" THEN [ok |-> TRUE, host |-> "", uri |-> "*"]
    ELSE IF HasPrefix(target, "http://") \/ HasPrefix(target, "https://")
         THEN LET rest == Drop(target, Index(target, "://") + 2)
                  n == LeadLenUntil(rest, {"/", "?"})
              IN [ok |-> TRUE, host |-> Take(rest, n),
                  uri |-> IF HasPrefix(Drop(rest, n), "/") THEN Drop(rest, n)
                          ELSE "/" \o Drop(rest, n)]
    ELSE [ok |-> FALSE, host |-> "", uri |-> ""]

\* http.ReadRequest: the request line is "method SP target SP version"; Host is
\* the target's host, else the Host header, which is removed from the Header
ReadRequest(b) ==
    LET r == ReadString(b, 0)
        line == StripEOL(r.line)
        i == Index(line, " ")
        method == Take(line, i - 1)
        rest == Drop(line, i)
        j == Index(rest, " ")
        target == Take(rest, j - 1)
        proto == Drop(rest, j)
        url == ParseTarget(method, target)
        mh == ReadMIMEHeader(b, Len(r.line), <<>>)
    IN IF r.err \/ i = 0 \/ j = 0 THEN NoRequest
       ELSE IF ~ValidMethod(method) \/ ~ValidHTTPVersion(proto) \/ ~url.ok THEN NoRequest
       ELSE IF ~mh.ok THEN NoRequest
       ELSE [ok |-> TRUE,
             Method |-> method,
             Host |-> IF url.host # "" THEN url.host ELSE HeaderGet(mh.h, "Host"),
             RequestURI |-> url.uri,
             Header |-> HeaderDel(mh.h, "Host")]

NoResponse == [ok |-> FALSE, Status |-> "", Header |-> <<>>]

\* http.ReadResponse: the status line is "version SP code [SP reason]" with a
\* three-digit code; Status is the line after the version
ReadResponse(b) ==
    LET r == ReadString(b, 0)
        line == StripEOL(r.line)
        i == Index(line, " ")
        proto == Take(line, i - 1)
        status == Drop(line, i + LeadLen(Drop(line, i), {" "}))
        code == IF Index(status, " ") = 0 THEN status ELSE Take(status, Index(status, " ") - 1)
        mh == ReadMIMEHeader(b, Len(r.line), <<>>)
    IN IF r.err \/ i = 0 THEN NoResponse
       ELSE IF Len(code) # 3 \/ LeadLen(code, DecBytes) # 3 \/ ~ValidHTTPVersion(proto) THEN NoResponse
       ELSE IF ~mh.ok THEN NoResponse
       ELSE [ok |-> TRUE, Status |-> status, Header |-> mh.h]

(***************************************************************************)
(* parseMultipartBody, with mime/multipart as it uses it.  The reader is   *)
(* modelled for bodies whose first delimiter line ends with CRLF and whose *)
(* parts carry no Content-Transfer-Encoding; a Content-Disposition is      *)
(* modelled for values written as  type; key="value"; key="value".         *)
(***************************************************************************)
RECURSIVE Quote(_)
\* the inside of fmt's %q (strconv.Quote) for printable ASCII, CR, LF and TAB
Quote(s) ==
    IF s = "" THEN ""
    ELSE (CASE At(s, 1) = "\"" -> "\\\""
            [] At(s, 1) = "\\" -> "\\\\"
            [] At(s, 1) = "\n" -> "\\n"
            [] At(s, 1) = "\r" -> "\\r"
            [] At(s, 1) = "\t" -> "\\t"
            [] OTHER -> At(s, 1)) \o Quote(Drop(s, 1))

\* mime.ParseMediaType: the media type (key = "") or the value of a parameter
MediaParam(v, key) ==
    LET pieces == SplitBy(v, ";")
        kvs == [i \in 1..Len(pieces) |-> SplitN2(TrimSpace(pieces[i]), "=")]
        hits == {i \in 2..Len(pieces) : Len(kvs[i]) = 2 /\ ToLower(kvs[i][1]) = key}
        val == kvs[CHOOSE i \in hits : \A j \in hits : i <= j][2]
    IN IF key = "" THEN ToLower(TrimSpace(pieces[1]))
       ELSE IF hits = {} THEN ""
       ELSE IF Len(val) >= 2 /\ At(val, 1) = "\"" /\ At(val, Len(val)) = "\""
            THEN SubSeq(val, 2, Len(val) - 1)
       ELSE val

\* a faulty summary: a file part is logged with its content
PartSummaryWithContent(h, data) ==
    "[file: \"" \o Quote(MediaParam(HeaderGet(h, "Content-Disposition"), "filename"))
        \o "\", " \o Itoa(Len(data)) \o " bytes: " \o data \o "]"

\* the summary of one part: Part.FileName, Part.FormName, the Content-Type
PartSummary(h, data) ==
    LET disposition == HeaderGet(h, "Content-Disposition")
        filename == MediaParam(disposition, "filename")
        fieldName == IF MediaParam(disposition, "") = "form-data"
                     THEN MediaParam(disposition, "name") ELSE ""
        ct == IF HeaderGet(h, "Content-Type") = "" THEN "application/octet-stream"
              ELSE HeaderGet(h, "Content-Type")
    IN IF filename # ""
       THEN "[file: \"" \o Quote(filename) \o "\", content-type: \"" \o Quote(ct) \o "\", "
                \o Itoa(Len(data)) \o " bytes]"
       ELSE IF isBinary(data)
       THEN "[field: \"" \o Quote(fieldName) \o "\", binary, " \o Itoa(Len(data)) \o " bytes]"
       ELSE "[field: \"" \o Quote(fieldName) \o "\" = \"" \o Quote(data) \o "\"]"

\* multipart.matchAfterPrefix at the end of the input: the k bytes of s that
\* look like a boundary are one (what follows is a blank, a line end, "--" or
\* the end of the input)
MatchAfterPrefix(s, k) ==
    \/ Len(s) = k
    \/ Len(s) > k /\ At(s, k + 1) \in {" ", "\t", "\r", "\n"}
    \/ HasPrefix(Drop(s, k), "--")

\* Part.Read to its end (multipart.scanUntilBoundary): the position in b where
\* the data of the part that starts after q bytes ends, at the first boundary
\* delim ("--" and the boundary) that opens the data or follows a CRLF
PartDataEnd(b, q, delim) ==
    LET rest == Drop(b, q)
        hits == {i \in 1..Len(rest) :
                    /\ HasPrefix(Drop(rest, i - 1), "\r\n" \o delim)
                    /\ MatchAfterPrefix(rest, i + Len(delim) + 1)}
    IN IF HasPrefix(rest, delim) /\ MatchAfterPrefix(rest, Len(delim)) THEN q
       ELSE IF hits = {} THEN Len(b)
       ELSE q + (CHOOSE i \in hits : \A j \in hits : i <= j) - 1

RECURSIVE HeaderEnd(_, _)
\* where textproto.Reader.ReadMIMEHeader stops: after the first empty line
HeaderEnd(b, p) ==
    IF ReadString(b, p).err THEN Len(b)
    ELSE IF StripEOL(ReadString(b, p).line) = "" THEN p + Len(ReadString(b, p).line)
    ELSE HeaderEnd(b, p + Len(ReadString(b, p).line))

\* Reader.isBoundaryDelimiterLine (last = "\r\n") and Reader.isFinalBoundary
\* (delim ending in "--", last = ""): the line is delim, blanks, CRLF
IsBoundaryLine(line, delim, last) ==
    /\ HasPrefix(line, delim)
    /\ Drop(line, Len(delim) + LeadLen(Drop(line, Len(delim)), BlankBytes)) \in {"\r\n", last}

RECURSIVE MultipartLoop(_, _, _, _, _, _)
\* the loop of parseMultipartBody over Reader.NextPart, p bytes of body read:
\* the parts read, each [header, data]; NextPart skips the lines before the
\* first delimiter, wants a CRLF and a delimiter line after a part, and fails
\* on anything else, on a malformed header and at the end of the input
MultipartLoop(body, delim, p, partsRead, expectNewPart, acc) ==
    LET r == ReadString(body, p)
        p1 == p + Len(r.line)
    IN IF r.err THEN acc
       ELSE IF IsBoundaryLine(r.line, delim, "\r\n")
       THEN IF ~ReadMIMEHeader(body, p1, <<>>).ok THEN acc
            ELSE MultipartLoop(body, delim, PartDataEnd(body, HeaderEnd(body, p1), delim),
                               partsRead + 1, FALSE,
                               Append(acc, [header |-> ReadMIMEHeader(body, p1, <<>>).h,
                                            data |-> SubSeq(body, HeaderEnd(body, p1) + 1,
                                                            PartDataEnd(body, HeaderEnd(body, p1), delim))]))
       ELSE IF IsBoundaryLine(r.line, delim \o "--", "") \/ expectNewPart THEN acc
       ELSE IF partsRead = 0 THEN MultipartLoop(body, delim, p1, partsRead, FALSE, acc)
       ELSE IF r.line = "\r\n" THEN MultipartLoop(body, delim, p1, partsRead, TRUE, acc)
       ELSE acc

\* the parts parseMultipartBody reads (none when the boundary is empty)
MultipartParts(body, boundary) ==
    IF boundary = "" THEN <<>> ELSE MultipartLoop(body, "--" \o boundary, 0, 0, FALSE, <<>>)

parseMultipartBody(body, boundary) ==
    LET parts == MultipartParts(body, boundary)
    IN IF Len(parts) = 0 THEN "[multipart: 0 parts, " \o Itoa(Len(body)) \o " bytes]"
       ELSE JoinWith([i \in 1..Len(parts) |-> PartSummary(parts[i].header, parts[i].data)], "; ")

(***************************************************************************)
(* sanitizeBody, with mime.ParseMediaType as it uses it: the value is      *)
(* modelled for parameters that hold no ';' inside a quoted string.        *)
(***************************************************************************)
\* the bytes RFC 2045 keeps out of a token, and the blank
TSpecials == {"(", ")", "<", ">", "@", ",", ";", ":", "\\", "\"", "/", "[", "]", "?", "=", " "}

\* mime: isToken
IsToken(s) == s # "" /\ \A i \in 1..Len(s) : At(s, i) \notin TSpecials \cup SpaceBytes

\* mime: checkMediaTypeDisposition
ValidMediaType(t) ==
    LET i == Index(t, "/")
    IN IF i = 0 THEN IsToken(t) ELSE IsToken(Take(t, i - 1)) /\ IsToken(Drop(t, i))

\* mime: consumeValue took the whole of v: a token or a quoted string
IsParamValue(v) ==
    \/ IsToken(v)
    \/ Len(v) >= 2 /\ At(v, 1) = "\"" /\ At(v, Len(v)) = "\"" /\ ~Contains(SubSeq(v, 2, Len(v) - 1), "\"")

\* mime: consumeMediaParam succeeds on the piece between two ';'
IsMediaParam(piece) ==
    LET kv == SplitN2(piece, "=")
    IN Len(kv) = 2 /\ IsToken(TrimSpace(kv[1])) /\ IsParamValue(TrimSpace(kv[2]))

\* the parameter loop of mime.ParseMediaType over the pieces after the media
\* type: every piece is a parameter, but for a last piece that is blank (a
\* trailing semicolon), and no name comes twice
ValidMediaParams(pieces) ==
    /\ \A i \in 2..Len(pieces) :
           IsMediaParam(pieces[i]) \/ (i = Len(pieces) /\ TrimSpace(pieces[i]) = "")
    /\ \A i, j \in 2..Len(pieces) :
           (i # j /\ IsMediaParam(pieces[i]) /\ IsMediaParam(pieces[j]))
               => ToLower(TrimSpace(SplitN2(pieces[i], "=")[1])) # ToLower(TrimSpace(SplitN2(pieces[j], "=")[1]))

\* mime.ParseMediaType(v): [err, ct, boundary]; boundary is <<>> when params
\* holds no boundary, <<its value>> when it does
ParsedMediaType(v, ct, pieces) ==
    [err |-> ~(ValidMediaType(ct) /\ ValidMediaParams(pieces)),
     ct |-> ct,
     boundary |-> IF \E i \in 2..Len(pieces) :
                        /\ IsMediaParam(pieces[i])
                        /\ ToLower(TrimSpace(SplitN2(pieces[i], "=")[1])) = "boundary"
                  THEN <<MediaParam(v, "boundary")>> ELSE <<>>]

\* the media type and the pieces between the semicolons are computed once
ParseMediaType(v) ==
    CHOOSE r \in {ParsedMediaType(v, ct, pieces) :
                     ct \in {MediaParam(v, "")}, pieces \in {SplitBy(v, ";")}} : TRUE

\* a faulty sanitizer: the body is classified before the Content-Type is
\* looked at
sanitizeBodyBinaryFirst(body, contentType) ==
    IF body = "" THEN ""
    ELSE IF isBinary(body) THEN "[binary: " \o Itoa(Len(body)) \o " bytes]"
    ELSE IF /\ contentType # ""
            /\ ~ParseMediaType(contentType).err
            /\ HasPrefix(ParseMediaType(contentType).ct, "multipart/")
            /\ ParseMediaType(contentType).boundary # <<>>
         THEN parseMultipartBody(body, ParseMediaType(contentType).boundary[1])
    ELSE body

\* no Content-Type: mime.ParseMediaType is not called
NoMediaType == [err |-> TRUE, ct |-> "", boundary |-> <<>>]

\* sanitizeBody once body has its value and mt is what mime.ParseMediaType
\* has returned
Rendering(body, mt) ==
    IF body = "" THEN ""
    ELSE IF ~mt.err /\ HasPrefix(mt.ct, "multipart/") /\ mt.boundary # <<>>
         THEN parseMultipartBody(body, mt.boundary[1])
    ELSE IF isBinary(body) THEN "[binary: " \o Itoa(Len(body)) \o " bytes]"
    ELSE body

\* the body and the media type are computed once, at the call
sanitizeBody(body, contentType) ==
    CHOOSE out \in {Rendering(b, IF c = "" THEN NoMediaType ELSE ParseMediaType(c)) :
                       b \in {body}, c \in {contentType}} : TRUE

(***************************************************************************)
(* splitEncapsulated and parseICAP (src/unnamed/part_000, lines 145-328:   *)
(* the offset-based parser that src/server.go calls).                      *)
(***************************************************************************)
RECURSIVE EncPartsWithNullBody(_)
\* a faulty list: null-body is kept as a part like any other name
EncPartsWithNullBody(tokens) ==
    IF tokens = <<>> THEN <<>>
    ELSE LET kv == SplitN2(TrimSpace(Head(tokens)), "=")
             name == TrimSpace(ToLower(kv[1]))
         IN IF Len(kv) # 2 THEN EncPartsWithNullBody(Tail(tokens))
            ELSE <<[name |-> name, offset |-> SscanfD(TrimSpace(kv[2]))]>>
                     \o EncPartsWithNullBody(Tail(tokens))

RECURSIVE EncParts(_)
\* the (name, offset) list splitEncapsulated builds from the header's tokens
EncParts(tokens) ==
    IF tokens = <<>> THEN <<>>
    ELSE LET kv == SplitN2(TrimSpace(Head(tokens)), "=")
             name == TrimSpace(ToLower(kv[1]))
         IN IF Len(kv) # 2 \/ name = "null-body" THEN EncParts(Tail(tokens))
            ELSE <<[name |-> name, offset |-> SscanfD(TrimSpace(kv[2]))]>> \o EncParts(Tail(tokens))

\* the slice bounds the loop computes for parts[i]
SliceStart(parts, i) == parts[i].offset

\* a faulty bound: every section runs to the end of the buffer
SliceEndAtBufferEnd(parts, i, n) == n

SliceEnd(parts, i, n) ==
    LET end == IF i + 1 <= Len(parts) THEN parts[i + 1].offset ELSE n
    IN IF end > n THEN n ELSE end

\* a faulty test: a part at the very end of the buffer is not skipped
SliceSkippedPastEnd(parts, i, n) == SliceStart(parts, i) > n

\* parts[i] is skipped: its offset is at or past the end of the buffer
SliceSkipped(parts, i, n) == SliceStart(parts, i) >= n

\* make([]byte, end-start) or data[start:end] panics
SlicePanics(parts, i, n) ==
    /\ ~SliceSkipped(parts, i, n)
    /\ (SliceStart(parts, i) < 0 \/ SliceEnd(parts, i, n) < SliceStart(parts, i))

RECURSIVE SliceLoop(_, _, _, _)
\* the slicing loop from parts[i] on: [panic, sections]; sections maps a
\* name to its bytes, a later part of the same name replacing an earlier one
SliceLoop(data, parts, i, sections) ==
    IF i > Len(parts) THEN [panic |-> FALSE, sections |-> sections]
    ELSE IF SliceSkipped(parts, i, Len(data)) THEN SliceLoop(data, parts, i + 1, sections)
    ELSE IF SlicePanics(parts, i, Len(data)) THEN [panic |-> TRUE, sections |-> sections]
    ELSE SliceLoop(data, parts, i + 1,
                   (parts[i].name :> SubSeq(data, SliceStart(parts, i) + 1, SliceEnd(parts, i, Len(data))))
                       @@ sections)

NoSections == [n \in {} |-> ""]

splitEncapsulated(data, encHeader) ==
    IF encHeader = "" \/ Len(data) = 0 THEN [panic |-> FALSE, sections |-> NoSections]
    ELSE SliceLoop(data, EncParts(SplitBy(encHeader, ",")), 1, NoSections)

RECURSIVE IcapHeaderLoop(_, _, _, _)
\* parseICAP's ICAP header loop with p bytes of raw consumed: [p, h, enc]
IcapHeaderLoop(raw, p, h, enc) ==
    LET r == ReadString(raw, p)
        line == TrimSpace(r.line)
        p1 == p + Len(r.line)
        idx == Index(line, ":")
        key == TrimSpace(Take(line, idx - 1))
        val == TrimSpace(Drop(line, idx))
    IN IF line = "" \/ r.err THEN [p |-> p1, h |-> h, enc |-> enc]
       ELSE IF idx = 0 THEN IcapHeaderLoop(raw, p1, h, enc)
       ELSE IcapHeaderLoop(raw, p1, HeaderAdd(h, key, val),
                           IF EqualFold(key, "Encapsulated") THEN val ELSE enc)

\* The section of that name when present and not empty, else ""
Section(sections, name) == IF name \in DOMAIN sections THEN sections[name] ELSE ""

EmptyInfo ==
    [icapMethod |-> "", icapURL |-> "", icapHeaders |-> <<>>,
     reqMethod |-> "", reqPath |-> "", destinationURL |-> "", reqHeaders |-> <<>>, reqBody |-> "",
     respStatus |-> "", respHeaders |-> <<>>, respBody |-> "",
     encapsulatedHeader |-> "", remaining |-> "", sections |-> NoSections, panic |-> FALSE]

\* a faulty scheme: https whatever the case of the header's value
SchemeInAnyCase(header) ==
    IF ToLower(HeaderGet(header, "X-Forwarded-Proto")) = "https" THEN "https" ELSE "http"

\* the scheme of destination_url
Scheme(header) == IF HeaderGet(header, "X-Forwarded-Proto") = "https" THEN "https" ELSE "http"

\* http.ReadRequest over the req-hdr section, when there is one
EncapsulatedRequest(sec) ==
    IF Section(sec, "req-hdr") # "" THEN ReadRequest(Section(sec, "req-hdr")) ELSE NoRequest

\* a faulty parser: the res-hdr section is not read
EncapsulatedResponseSkipped(sec) == NoResponse

\* http.ReadResponse over the res-hdr section, when there is one
EncapsulatedResponse(sec) ==
    IF Section(sec, "res-hdr") # "" THEN ReadResponse(Section(sec, "res-hdr")) ELSE NoResponse

\* a faulty parser: the body section is taken as it is, chunk framing included
EncapsulatedBodyUndecoded(sec, name) == [out |-> Section(sec, name), panic |-> FALSE]

\* decodeChunked over the named body section, when there is one
EncapsulatedBody(sec, name) ==
    IF Section(sec, name) # "" THEN decodeChunked(Section(sec, name))
    ELSE [out |-> "", panic |-> FALSE]

\* the icapInfo parseICAP fills in from what it has parsed
FillInfo(parts, hl, remaining, split, req, resp, reqDec, respDec) ==
    [icapMethod |-> IF Len(parts) >= 2 THEN parts[1] ELSE "",
     icapURL |-> IF Len(parts) >= 2 THEN parts[2] ELSE "",
     icapHeaders |-> hl.h,
     reqMethod |-> req.Method,
     reqPath |-> req.RequestURI,
     destinationURL |-> IF req.ok /\ req.Host # ""
                        THEN Scheme(req.Header) \o "://" \o req.Host \o req.RequestURI
                        ELSE "",
     reqHeaders |-> req.Header,
     reqBody |-> sanitizeBody(reqDec.out, HeaderGet(req.Header, "Content-Type")),
     respStatus |-> resp.Status,
     respHeaders |-> resp.Header,
     respBody |-> sanitizeBody(respDec.out, HeaderGet(resp.Header, "Content-Type")),
     encapsulatedHeader |-> hl.enc,
     remaining |-> remaining,
     sections |-> split.sections,
     panic |-> split.panic \/ (~split.panic /\ (reqDec.panic \/ respDec.panic))]

\* parseICAP once the encapsulated buffer is split into its sections
ParseSections(parts, hl, remaining, split) ==
    FillInfo(parts, hl, remaining, split,
             EncapsulatedRequest(split.sections), EncapsulatedResponse(split.sections),
             EncapsulatedBody(split.sections, "req-body"),
             EncapsulatedBody(split.sections, "res-body"))

\* parseICAP once the ICAP headers are read: hl is [p, h, enc]
ParseEncapsulated(raw, parts, hl) ==
    ParseSections(parts, hl, Drop(raw, hl.p), splitEncapsulated(Drop(raw, hl.p), hl.enc))

\* parseICAP(raw): the icapInfo, with the Encapsulated value, the encapsulated
\* buffer and the sections it was computed from; panic when splitEncapsulated
\* or decodeChunked panics
parseICAP(raw) ==
    IF ReadString(raw, 0).err THEN EmptyInfo
    ELSE ParseEncapsulated(raw, SplitBy(TrimSpace(ReadString(raw, 0).line), " "),
                           IcapHeaderLoop(raw, Len(ReadString(raw, 0).line), <<>>, ""))

(***************************************************************************)
(* State of one accepted connection.                                       *)
(***************************************************************************)
VARIABLES
    msg,              \* the message the client set out to send (with how it was built)
    suffix,           \* bytes the client sends after it
    stream,           \* every byte the client sends before closing or going silent
    maxSize,          \* cfg.MaxBodySize
    pc,               \* where handleConn is
    pos,              \* bytes readICAPMessage has taken from the bufio.Reader
    buf,              \* readICAPMessage: buf
    total,            \* readICAPMessage: total
    encapsulatedVal,  \* readICAPMessage: encapsulatedVal
    err,              \* readICAPMessage's error result: "" while it runs, then nil, size or io
    exit,             \* the return or break it left by: "" while it runs
    waited,           \* a read asked for bytes past the end of the stream
    info,             \* parseICAP's result
    sink,             \* the lines appended to the log sink
    wrote,            \* the payloads handleConn passed to conn.Write, and whether the write succeeded
    writeDeadline,    \* conn.SetWriteDeadline: unset, set or failed
    closed,           \* conn.Close has run
    events,           \* what the handler has done, in order
    call,             \* a function called on its own: its name, "" when none is
    args,             \* the arguments of that call
    result,           \* what the call returned: <<>> until it has
    mainPc,           \* where main is: "none" when the process as a whole is not modelled
    timedOut,         \* healthSrv.Shutdown returned because its 15 s context expired
    handler,          \* for each connection of the process, where its handleConn is
    mu,               \* rotatingWriter.mu: who holds it (Free for nobody)
    logWriter,        \* the rotatingWriter: maxSize, size, file (open, closed or nil)
    files,            \* the log directory: the content of each file by its name
    acceptLoop,       \* the goroutine around ln.Accept: where it is, and whether Accept has failed
    now               \* the clock, in seconds

vars == <<msg, suffix, stream, maxSize, pc, pos, buf, total, encapsulatedVal, err, exit, waited,
          info, sink, wrote, writeDeadline, closed, events, call, args, result,
          mainPc, timedOut, handler, mu, logWriter, files, acceptLoop, now>>

\* the process as a whole: main, its handlers and the rotatingWriter
server == <<mainPc, timedOut, handler, mu, logWriter, files, acceptLoop, now>>

\* the process as a whole is not modelled
NoServer ==
    /\ mainPc = "none" /\ timedOut = FALSE /\ handler = <<>>
    /\ mu = 0 /\ logWriter = <<>> /\ files = <<>> /\ acceptLoop = <<>> /\ now = 0

\* the state that is no part of the connection
outside == <<call, args, result, server>>

\* no function is called on its own
NoCall == call = "" /\ args = <<>> /\ result = <<>>

inputs == <<msg, suffix, stream, maxSize>>

readerVars == <<pos, buf, total, encapsulatedVal, err, exit, waited>>

\* the state after Accept, the client about to send one of the messages
Start(messages) ==
    /\ \E m \in messages :
         /\ msg = [bytes |-> Bytes(m), wellFormed |-> m.wellFormed, body |-> m.body]
         /\ \/ \E s \in Suffixes, c \in {Len(Bytes(m)), BigSize} :
                 suffix = s /\ stream = Bytes(m) \o s /\ maxSize = c
            \/ \E c \in CeilingsFor(m) :
                 suffix = "" /\ stream = Bytes(m) /\ maxSize = c
            \/ \E k \in 0..(Len(Bytes(m)) - 1) :
                 suffix = "" /\ stream = Take(Bytes(m), k) /\ maxSize = BigSize
    /\ pc = "accepted"
    /\ pos = 0 /\ buf = "" /\ total = 0 /\ encapsulatedVal = "" /\ err = "" /\ exit = "" /\ waited = FALSE
    /\ info = EmptyInfo
    /\ sink = <<>> /\ wrote = <<>> /\ writeDeadline = "unset" /\ closed = FALSE /\ events = <<>>
    /\ NoCall /\ NoServer

Init == Start(Messages)

\* a faulty return: the connection is left open
ReturnWithoutClose(evs) ==
    /\ pc' = "done"
    /\ closed' = closed
    /\ events' = evs

\* handleConn returns: the deferred conn.Close runs
Return(evs) ==
    /\ pc' = "done"
    /\ closed' = TRUE
    /\ events' = evs \o <<"close">>

\* a panic in the handler's goroutine: the deferred conn.Close runs, then the
\* runtime ends the process
Panic(evs) ==
    /\ pc' = "crashed"
    /\ closed' = TRUE
    /\ events' = evs \o <<"close", "panic">>

\* conn.SetReadDeadline, then bufio.NewReaderSize and the call of readICAPMessage
SetReadDeadline ==
    /\ pc = "accepted"
    /\ \E ok \in BOOLEAN :
         IF ok THEN /\ pc' = "phase1"
                    /\ events' = events \o <<"read">>
                    /\ UNCHANGED closed
         ELSE Return(events)
    /\ UNCHANGED <<outside, inputs, readerVars, info, sink, wrote, writeDeadline>>

(***************************************************************************)
(* readICAPMessage (src/server.go:54-164), one loop iteration per step.    *)
(***************************************************************************)
\* a faulty guard: one byte too many is let through
ExceedsMaxByTwo(t) == t > maxSize + 1

\* the guard of steps 1 to 3: the message exceeds the ceiling
ExceedsMax(t) == t > maxSize

\* step 4 is entered
HasChunkedBody(enc) ==
    /\ Contains(enc, "req-body") \/ Contains(enc, "res-body")
    /\ ~Contains(enc, "null-body")

\* a faulty reader: null-body is taken to mean that nothing is encapsulated
AfterStepSkippingNullBody(n, enc) ==
    IF n = 1 /\ enc = "" THEN "returned"
    ELSE IF Contains(enc, "null-body") THEN "returned"
    ELSE IF n < 2 /\ Contains(enc, "req-hdr") THEN "phase2"
    ELSE IF n < 3 /\ Contains(enc, "res-hdr") THEN "phase3"
    ELSE IF HasChunkedBody(enc) THEN "phase4"
    ELSE "returned"

\* where the reader goes once the header loop of step n (1..3) has met its blank line
AfterStep(n, enc) ==
    IF n = 1 /\ enc = "" THEN "returned"
    ELSE IF n < 2 /\ Contains(enc, "req-hdr") THEN "phase2"
    ELSE IF n < 3 /\ Contains(enc, "res-hdr") THEN "phase3"
    ELSE IF HasChunkedBody(enc) THEN "phase4"
    ELSE "returned"

\* one iteration of the header loop of step n
HeaderLine(n) ==
    LET r == ReadString(stream, pos)
        t == total + Len(r.line)
        trimmed == TrimRightCRLF(r.line)
        lower == ToLower(trimmed)
        next == AfterStep(n, encapsulatedVal)
    IN /\ pos' = pos + Len(r.line)
       /\ total' = t
       /\ waited' = (waited \/ r.err)
       /\ IF ExceedsMax(t)
          THEN /\ err' = "size" /\ exit' = "size" /\ pc' = "returned"
               /\ UNCHANGED <<buf, encapsulatedVal>>
          ELSE /\ buf' = buf \o r.line
               /\ IF r.err THEN /\ err' = "io" /\ exit' = "io" /\ pc' = "returned"
                                /\ UNCHANGED encapsulatedVal
                  ELSE IF trimmed = ""
                       THEN /\ pc' = next
                            /\ err' = IF next = "returned" THEN "nil" ELSE err
                            /\ exit' = IF next = "returned" THEN "headers" ELSE exit
                            /\ UNCHANGED encapsulatedVal
                  ELSE /\ encapsulatedVal' =
                              IF n = 1 /\ HasPrefix(lower, "encapsulated:") THEN lower
                              ELSE encapsulatedVal
                       /\ UNCHANGED <<pc, err, exit>>
       /\ UNCHANGED <<outside, inputs, info, sink, wrote, writeDeadline, closed, events>>

\* step 1: the ICAP request line and ICAP headers
ReadIcapHeaderLine == pc = "phase1" /\ HeaderLine(1)

\* step 2: the encapsulated HTTP request headers
ReadReqHdrLine == pc = "phase2" /\ HeaderLine(2)

\* step 3: the encapsulated HTTP response headers
ReadResHdrLine == pc = "phase3" /\ HeaderLine(3)

\* the size a chunk-size line states: TrimSpace, the extension cut at ';', ParseInt
ChunkSize(sizeLine) ==
    LET sizeStr == TrimSpace(sizeLine)
        idx == Index(sizeStr, ";")
    IN ParseIntHex(IF idx > 0 THEN Take(sizeStr, idx - 1) ELSE sizeStr)

\* the guard of step 4: total+size > maxSize, in int64
ChunkExceedsMax(t, size) == Gt64(Add64(I64(t), size), I64(maxSize))

\* a faulty allocation: no room for the CRLF that follows the chunk data
ChunkAllocWithoutCRLF(size) == size

\* the length of the buffer step 4 allocates for a chunk and its CRLF
ChunkAlloc(size) == Add64(size, I64(2))

\* step 4: one iteration of the chunk loop
ReadChunk ==
    /\ pc = "phase4"
    /\ LET r == ReadString(stream, pos)
           t == total + Len(r.line)
           p1 == pos + Len(r.line)
           size == ChunkSize(r.line)
           trail == ReadString(stream, p1)
           n == ChunkAlloc(size.v)
           data == ReadFull(stream, p1, ToInt(n))
       IN IF r.err
          THEN /\ pos' = p1 /\ total' = t /\ buf' = buf \o r.line
               /\ err' = "io" /\ exit' = "io" /\ pc' = "returned" /\ waited' = TRUE
               /\ UNCHANGED <<closed, events>>
          ELSE IF ~size.ok \/ size.v = Zero64
          THEN /\ pos' = p1 + Len(trail.line) /\ total' = t
               /\ buf' = buf \o r.line \o trail.line
               /\ err' = "nil" /\ exit' = "last-chunk" /\ pc' = "returned"
               /\ waited' = (waited \/ trail.err)
               /\ UNCHANGED <<closed, events>>
          ELSE IF ChunkExceedsMax(t, size.v)
          THEN /\ pos' = p1 /\ total' = t /\ buf' = buf \o r.line
               /\ err' = "nil" /\ exit' = "ceiling" /\ pc' = "returned"
               /\ UNCHANGED <<waited, closed, events>>
          ELSE IF MakeSlicePanics(n)
          THEN /\ pos' = p1 /\ total' = t /\ buf' = buf \o r.line
               /\ Panic(events)
               /\ UNCHANGED <<err, exit, waited>>
          ELSE /\ pos' = p1 + Len(data.data) /\ total' = t + Len(data.data)
               /\ buf' = buf \o r.line \o data.data
               /\ waited' = (waited \/ data.err)
               /\ IF data.err THEN err' = "nil" /\ exit' = "short-chunk" /\ pc' = "returned"
                  ELSE UNCHANGED <<err, exit, pc>>
               /\ UNCHANGED <<closed, events>>
    /\ UNCHANGED <<outside, inputs, encapsulatedVal, info, sink, wrote, writeDeadline>>

(***************************************************************************)
(* handleConn (src/server.go:169-262) after readICAPMessage has returned.  *)
(***************************************************************************)
\* a faulty reply: "respmod" is looked for in the URL as it was sent
icapOptionsResponseCaseSensitive(serviceURL) ==
    JoinWith(<<"ICAP/1.0 200 OK",
               "Methods: " \o (IF Contains(serviceURL, "respmod") THEN "RESPMOD" ELSE "REQMOD"),
               "Service: icap-logger/1.0",
               "ISTag: \"icap-logger-1.0\"",
               "Encapsulated: null-body=0",
               "Max-Connections: 100",
               "Options-TTL: 3600",
               "Allow: 204",
               "Preview: 0",
               "Transfer-Complete: *",
               "Transfer-Ignore: jpg,jpeg,gif,png,swf,flv,mp3,mp4,avi,mkv,zip,gz,tar,iso",
               "Connection: close",
               "\r\n">>, "\r\n")

\* icapOptionsResponse
icapOptionsResponse(serviceURL) ==
    JoinWith(<<"ICAP/1.0 200 OK",
               "Methods: " \o (IF Contains(ToLower(serviceURL), "respmod") THEN "RESPMOD" ELSE "REQMOD"),
               "Service: icap-logger/1.0",
               "ISTag: \"icap-logger-1.0\"",
               "Encapsulated: null-body=0",
               "Max-Connections: 100",
               "Options-TTL: 3600",
               "Allow: 204",
               "Preview: 0",
               "Transfer-Complete: *",
               "Transfer-Ignore: jpg,jpeg,gif,png,swf,flv,mp3,mp4,avi,mkv,zip,gz,tar,iso",
               "Connection: close",
               "\r\n">>, "\r\n")

NoModifications == "ICAP/1.0 204 No Modifications\r\nConnection: close\r\n\r\n"

\* strings.SplitN(string(buf), "\r\n", 2)[0]
FirstLine(b) == SplitN2(b, "\r\n")[1]

\* the test that sends a message down the OPTIONS branch
IsOptions(b) == HasPrefix(TrimSpace(FirstLine(b)), "OPTIONS ")

\* the service URL the OPTIONS branch passes to icapOptionsResponse
ServiceURL(b) ==
    LET parts == Fields(FirstLine(b)) IN IF Len(parts) >= 2 THEN parts[2] ELSE ""

\* the handler gives the message up: the reader failed, or returned nothing
Dropped == err # "nil" \/ Len(buf) = 0

\* headersToMap: each key once, its values joined with ", "
headersToMap(h) ==
    [k \in {h[i][1] : i \in 1..Len(h)} |->
        JoinWith(SelectSeq([i \in 1..Len(h) |-> IF h[i][1] = k THEN h[i][2] ELSE ""],
                           LAMBDA v : v # ""), ", ")]

\* tunneled := info.reqMethod == "CONNECT"
Tunneled(i) == i.reqMethod = "CONNECT"

\* a faulty entry: every CONNECT is logged with the placeholder
EntryReqBodyOfAnyTunnel(i) == IF Tunneled(i) THEN TunnelPlaceholder ELSE i.reqBody

\* the req_body of the entry
EntryReqBody(i) == IF Tunneled(i) /\ i.reqBody = "" THEN TunnelPlaceholder ELSE i.reqBody

\* the logEntry handleConn builds; the time of day is not modelled, the
\* timestamp is a text that is never empty
LogEntry(i) ==
    [Timestamp |-> "2006-01-02T15:04:05.000Z",
     ICAPMethod |-> i.icapMethod,
     ICAPURL |-> i.icapURL,
     ICAPHeaders |-> headersToMap(i.icapHeaders),
     ReqMethod |-> i.reqMethod,
     ReqPath |-> i.reqPath,
     DestinationURL |-> i.destinationURL,
     Tunneled |-> Tunneled(i),
     ReqHeaders |-> headersToMap(i.reqHeaders),
     ReqBody |-> EntryReqBody(i),
     RespStatus |-> i.respStatus,
     RespHeaders |-> headersToMap(i.respHeaders),
     RespBody |-> i.respBody]

\* the fields of logEntry by their JSON keys (src/types.go:36-50)
JSONFields(e) ==
    [timestamp |-> e.Timestamp, icap_method |-> e.ICAPMethod, icap_url |-> e.ICAPURL,
     icap_headers |-> e.ICAPHeaders, req_method |-> e.ReqMethod, req_path |-> e.ReqPath,
     destination_url |-> e.DestinationURL, tunneled |-> e.Tunneled,
     req_headers |-> e.ReqHeaders, req_body |-> e.ReqBody, resp_status |-> e.RespStatus,
     resp_headers |-> e.RespHeaders, resp_body |-> e.RespBody]

\* the keys of the fields of type map[string]string
MapKeys == {"icap_headers", "req_headers", "resp_headers"}

\* omitempty: the value is false, an empty string or an empty map
IsEmptyValue(key, value) ==
    IF key = "tunneled" THEN ~value
    ELSE IF key \in MapKeys THEN DOMAIN value = {}
    ELSE value = ""

\* the keys that carry omitempty: all but timestamp
OmitEmptyKeys == DOMAIN JSONFields(LogEntry(EmptyInfo)) \ {"timestamp"}

\* a faulty encoder: tunneled is written whatever its value
MarshalWithTunneled(e) ==
    [k \in {j \in DOMAIN JSONFields(e) :
                j \in OmitEmptyKeys \ {"tunneled"} => ~IsEmptyValue(j, JSONFields(e)[j])}
        |-> JSONFields(e)[k]]

\* json.Marshal(entry): the JSON object, each key with its value; a field
\* with omitempty is left out when its value is empty (string escapes are
\* not modelled)
Marshal(e) ==
    [k \in {j \in DOMAIN JSONFields(e) :
                j \in OmitEmptyKeys => ~IsEmptyValue(j, JSONFields(e)[j])}
        |-> JSONFields(e)[k]]

\* the line logged when the response write fails
WriteErrorLine == [error |-> "failed to write ICAP response"]

\* logger.Println(line): the sink takes the line, or its Write fails and the
\* logger drops the error
Println(line, ok) == sink' = IF ok THEN Append(sink, line) ELSE sink

\* err != nil || len(buf) == 0: return
DropMessage ==
    /\ pc = "returned"
    /\ Dropped
    /\ Return(events)
    /\ UNCHANGED <<outside, inputs, readerVars, info, sink, wrote, writeDeadline>>

\* the OPTIONS branch: set the write deadline, write the reply, return
AnswerOptions ==
    /\ pc = "returned"
    /\ ~Dropped
    /\ IsOptions(buf)
    /\ \E deadlineSet \in BOOLEAN, written \in BOOLEAN :
         IF deadlineSet
         THEN /\ writeDeadline' = "set"
              /\ wrote' = Append(wrote, [bytes |-> icapOptionsResponse(ServiceURL(buf)), ok |-> written])
              /\ Return(events \o <<"respond">>)
         ELSE /\ writeDeadline' = "failed"
              /\ UNCHANGED wrote
              /\ Return(events)
    /\ UNCHANGED <<outside, inputs, readerVars, info, sink>>

\* a faulty handler: the 204 is written before the record is appended
RespondBeforeLog ==
    /\ pc = "returned"
    /\ ~Dropped
    /\ ~IsOptions(buf)
    /\ info' = parseICAP(buf)
    /\ writeDeadline' = "set"
    /\ wrote' = Append(wrote, [bytes |-> NoModifications, ok |-> TRUE])
    /\ sink' = Append(sink, LogEntry(parseICAP(buf)))
    /\ Return(events \o <<"parse", "respond", "log">>)
    /\ UNCHANGED <<outside, inputs, readerVars>>

\* parseICAP, the entry, json.Marshal and logger.Println
ParseAndLog ==
    /\ pc = "returned"
    /\ ~Dropped
    /\ ~IsOptions(buf)
    /\ \E i \in {parseICAP(buf)} :
          IF i.panic
          THEN /\ Panic(events \o <<"parse">>)
               /\ UNCHANGED <<info, sink>>
          ELSE /\ info' = i
               /\ \E ok \in BOOLEAN : Println(Marshal(LogEntry(i)), ok)
               /\ pc' = "logged"
               /\ events' = events \o <<"parse", "log">>
               /\ UNCHANGED closed
    /\ UNCHANGED <<outside, inputs, readerVars, wrote, writeDeadline>>

\* a faulty handler: a failed write of the 204 is tried once more
RespondWithRetry ==
    /\ pc = "logged"
    /\ \E written \in BOOLEAN :
         /\ writeDeadline' = "set"
         /\ wrote' = IF written THEN Append(wrote, [bytes |-> NoModifications, ok |-> TRUE])
                     ELSE wrote \o <<[bytes |-> NoModifications, ok |-> FALSE],
                                     [bytes |-> NoModifications, ok |-> TRUE]>>
         /\ Return(events \o <<"respond">>)
    /\ UNCHANGED <<outside, inputs, readerVars, info, sink>>

\* set the write deadline, write the 204, log a failed write, return
Respond ==
    /\ pc = "logged"
    /\ \E deadlineSet \in BOOLEAN, written \in BOOLEAN, ok \in BOOLEAN :
         IF ~deadlineSet
         THEN /\ writeDeadline' = "failed"
              /\ Return(events)
              /\ UNCHANGED <<wrote, sink>>
         ELSE /\ writeDeadline' = "set"
              /\ wrote' = Append(wrote, [bytes |-> NoModifications, ok |-> written])
              /\ IF written THEN /\ UNCHANGED sink
                                 /\ Return(events \o <<"respond">>)
                 ELSE /\ Println(WriteErrorLine, ok)
                      /\ Return(events \o <<"respond", "log-error">>)
    /\ UNCHANGED <<outside, inputs, readerVars, info>>

Next ==
    \/ SetReadDeadline
    \/ ReadIcapHeaderLine
    \/ ReadReqHdrLine
    \/ ReadResHdrLine
    \/ ReadChunk
    \/ DropMessage
    \/ AnswerOptions
    \/ ParseAndLog
    \/ Respond

Spec == Init /\ [][Next]_vars

\* the messages of the connections followed to their end: OPTIONS, a REQMOD
\* with a body of MaxChunks chunks, a RESPMOD with no body, a chunk of
\* negative size
LiveMessages ==
    {WellFormed(OptionsRespLine, <<>>, "null-body", <<>>),
     WellFormed(ReqmodLine, <<PostHdr>>, "req-body", SubSeq(ChunkData, 1, Min(MaxChunks, Len(ChunkData)))),
     WellFormed(RespmodLine, <<GetHdr, OkHdr>>, "null-body", <<>>),
     Malformed("negative size")}

LiveInit == Start(LiveMessages)

\* handleConn has returned, or the process has ended in a panic
Finished == pc \in {"done", "crashed"}

\* the handler's goroutine is scheduled as long as it can take a step: a
\* read or a write that cannot go on returns when its deadline fires.  This
\* is WF_vars(Next) with ENABLED <<Next>>_vars written out as ~Finished: a
\* step of Next is possible in every state but those two.
Fairness == []<>Finished \/ []<><<Next>>_vars

LiveSpec == LiveInit /\ [][Next]_vars /\ Fairness

(***************************************************************************)
(* Functions called on their own, outside a connection: the call, its      *)
(* arguments drawn from bounded sets, then its result.                     *)
(***************************************************************************)
connection == <<inputs, readerVars, pc, info, sink, wrote, writeDeadline, closed, events>>

\* no connection is being handled
NoConnection ==
    /\ msg = [bytes |-> "", wellFormed |-> FALSE, body |-> "raw"]
    /\ suffix = "" /\ stream = "" /\ maxSize = 0
    /\ pc = "none"
    /\ pos = 0 /\ buf = "" /\ total = 0 /\ encapsulatedVal = "" /\ err = "" /\ exit = "" /\ waited = FALSE
    /\ info = EmptyInfo
    /\ sink = <<>> /\ wrote = <<>> /\ writeDeadline = "unset" /\ closed = FALSE /\ events = <<>>

\* the call of f returns value
Call(f, value) ==
    /\ call = f
    /\ result = <<>>
    /\ result' = <<value>>
    /\ UNCHANGED <<call, args, connection, server>>

\* the call has returned
Returned(f) == call = f /\ result # <<>>

(***************************************************************************)
(* splitEncapsulated(data, encHeader) on its own.  The buffer is made of   *)
(* distinct bytes; the Encapsulated value is written from a layout, a      *)
(* sequence of (name, offset) tokens, plainly ("req-hdr=0, req-body=2") or *)
(* loosely ("REQ-HDR = 0 , REQ-BODY = 2").                                 *)
(***************************************************************************)
\* the most tokens of a layout
MaxTokens == 3

\* the longest buffer
MaxDataLen == 3

LayoutNames == {"req-hdr", "res-hdr", "req-body", "null-body"}

RECURSIVE ToUpper(_)
\* the name in upper case
ToUpper(s) == IF s = "" THEN "" ELSE UpperByte(At(s, 1)) \o ToUpper(Drop(s, 1))

\* the offsets never decrease
NonDecreasing(layout) == \A i \in 1..(Len(layout) - 1) : layout[i].offset <= layout[i + 1].offset

\* no name is declared twice
DistinctNames(layout) ==
    \A i, j \in 1..Len(layout) : i # j => layout[i].name # layout[j].name

RECURSIVE Layouts(_)
\* the layouts of n tokens, offsets up to one past the longest buffer: every
\* layout of one or two tokens, and the longer ones whose offsets never
\* decrease and whose names differ
Layouts(n) ==
    IF n = 0 THEN {<<>>}
    ELSE {l \in {Append(s, [name |-> nm, offset |-> o]) :
                     s \in Layouts(n - 1), nm \in LayoutNames, o \in 0..(MaxDataLen + 1)} :
              n <= 2 \/ (NonDecreasing(l) /\ DistinctNames(l))}

LayoutsTried == UNION {Layouts(n) : n \in 1..MaxTokens}

RECURSIVE WriteLayout(_, _)
\* the Encapsulated value of a layout
WriteLayout(layout, loose) ==
    IF layout = <<>> THEN ""
    ELSE (IF loose THEN " " \o ToUpper(layout[1].name) \o " = " \o Itoa(layout[1].offset) \o " "
          ELSE layout[1].name \o "=" \o Itoa(layout[1].offset))
         \o (IF Len(layout) = 1 THEN "" ELSE IF loose THEN "," ELSE ", ")
         \o WriteLayout(Tail(layout), loose)

SplitInit ==
    /\ NoConnection /\ NoServer
    /\ call = "splitEncapsulated"
    /\ \E n \in 0..MaxDataLen, l \in LayoutsTried, loose \in BOOLEAN :
         args = [data |-> Take("abcdefghijklmnop", n), encHeader |-> WriteLayout(l, loose),
                 layout |-> l]
    /\ result = <<>>

CallSplit == Call("splitEncapsulated", splitEncapsulated(args.data, args.encHeader))

SplitSpec == SplitInit /\ [][CallSplit]_vars

(***************************************************************************)
(* splitEncapsulated(data, encHeader) on its own, the Encapsulated value   *)
(* written from any tokens: sections in and out of order, offsets past the *)
(* buffer or negative, names that are no section, tokens that are not of   *)
(* the form name=offset.                                                   *)
(***************************************************************************)
\* the most tokens of such a value
MaxListLen == 2

TokensTried ==
    {"req-hdr=0", "res-hdr=1", "req-body=2", "res-body=9", "null-body=1", "opt-body=0", "x=1",
     "null-body=0", "req-body", "res-hdr=", "req-hdr=zz", "req-hdr=-1"}

RECURSIVE TokenLists(_)
\* the lists of n tokens
TokenLists(n) ==
    IF n = 0 THEN {<<>>} ELSE {Append(s, t) : s \in TokenLists(n - 1), t \in TokensTried}

TokensInit ==
    /\ NoConnection /\ NoServer
    /\ call = "splitEncapsulated"
    /\ \E n \in 0..MaxDataLen, k \in 0..MaxListLen : \E tokens \in TokenLists(k) :
         args = [data |-> Take("abcdefghijklmnop", n), encHeader |-> JoinWith(tokens, ", "),
                 tokens |-> tokens]
    /\ result = <<>>

TokensSpec == TokensInit /\ [][CallSplit]_vars

(***************************************************************************)
(* decodeChunked(data) on its own: data is the chunked encoding of a body  *)
(* cut into chunks.                                                        *)
(***************************************************************************)
\* the most chunks a body is cut into
MaxParts == 2

\* the longest chunk written from ChunkBytes
MaxChunkLen == 2

ChunkBytes == {"a", "\n", "0"}

\* the chunks tried: the short strings over ChunkBytes, a chunk that reads like
\* the end of a body, and chunks of 16 and 26 bytes (sizes "10" and "1a")
ChunksTried ==
    StringsUpTo(ChunkBytes, MaxChunkLen)
    \cup {"0\r\n\r\n", "0123456789abcdef", "abcdefghijklmnopqrstuvwxyz"}

RECURSIVE Partitions(_)
\* the bodies of n chunks
Partitions(n) ==
    IF n = 0 THEN {<<>>} ELSE {Append(s, c) : s \in Partitions(n - 1), c \in ChunksTried}

ChunkedInit ==
    /\ NoConnection /\ NoServer
    /\ call = "decodeChunked"
    /\ \E n \in 0..MaxParts : \E chunks \in Partitions(n) :
         args = [chunks |-> chunks, data |-> Concat(BodyParts(chunks))]
    /\ result = <<>>

CallDecodeChunked == Call("decodeChunked", decodeChunked(args.data))

ChunkedSpec == ChunkedInit /\ [][CallDecodeChunked]_vars

(***************************************************************************)
(* decodeChunked(data) on its own: data is some complete chunks and then   *)
(* what makes the loop stop.                                               *)
(***************************************************************************)
\* what follows the complete chunks: a zero chunk and a further body, a zero
\* chunk alone, a size line that is no number, a size line with an extension,
\* a chunk cut short, a size line cut short, nothing, a negative size
Stops ==
    {"0\r\n\r\n5\r\nhello\r\n0\r\n\r\n", "0\r\n", "zz\r\nhello\r\n", "5;x=1\r\nhello\r\n",
     "5\r\nhe", "5", "", "-3\r\nabc\r\n0\r\n\r\n"}

StoppedInit ==
    /\ NoConnection /\ NoServer
    /\ call = "decodeChunked"
    /\ \E n \in 0..MaxParts : \E chunks \in Partitions(n) : \E stop \in Stops :
         /\ \A i \in 1..n : chunks[i] # ""
         /\ args = [chunks |-> chunks, stop |-> stop, data |-> Concat(ChunkParts(chunks)) \o stop]
    /\ result = <<>>

StoppedSpec == StoppedInit /\ [][CallDecodeChunked]_vars

(***************************************************************************)
(* isBinary(data) on its own.                                              *)
(***************************************************************************)
\* the most bytes of the part of the input that varies
MaxSampleLen == 24

RECURSIVE Repeat(_, _)
\* n times the string s
Repeat(s, n) ==
    IF n = 0 THEN ""
    ELSE IF n = 1 THEN s
    ELSE Repeat(s, n \div 2) \o Repeat(s, n - n \div 2)

\* n bytes, the first k of them non-printable, the others tabs, line ends,
\* spaces and letters
Sample(n, k) == Take(Repeat(CtlBytes, 18), k) \o Take(Repeat("\t\n\r a~", 86), n - k)

\* the inputs tried: n bytes with k non-printable ones, alone or as the end
\* of a 512-byte sample that holds 50 more of them and is followed by 100
\* non-printable bytes isBinary must not look at
BinaryInit ==
    /\ NoConnection /\ NoServer
    /\ call = "isBinary"
    /\ \E n \in 0..MaxSampleLen : \E k \in 0..n : \E long \in BOOLEAN :
         args = [data |-> IF long
                          THEN Sample(512 - n, 50) \o Sample(n, k) \o Sample(100, 100)
                          ELSE Sample(n, k)]
    /\ result = <<>>

CallIsBinary == Call("isBinary", isBinary(args.data))

BinarySpec == BinaryInit /\ [][CallIsBinary]_vars

(***************************************************************************)
(* isBinary(data) and then isBinary of data with more bytes appended.      *)
(***************************************************************************)
\* the most bytes appended
MaxMoreLen == 4

\* the inputs tried: a sample of n bytes with k non-printable ones, alone or
\* as the end of a 510-byte sample that holds 50 more of them, and m bytes
\* to append, all of them printable or all of them non-printable
AppendInit ==
    /\ NoConnection /\ NoServer
    /\ call = "isBinary"
    /\ \E n \in 0..MaxSampleLen : \E k \in 0..n : \E long \in BOOLEAN :
       \E m \in 1..MaxMoreLen : \E kind \in {"printable", "non-printable"} :
         args = [data |-> IF long THEN Sample(510 - n, 50) \o Sample(n, k) ELSE Sample(n, k),
                 kind |-> kind,
                 more |-> IF kind = "printable" THEN Sample(m, 0) ELSE Sample(m, m)]
    /\ result = <<>>

\* the second call, over the sample with the bytes appended
CallIsBinaryAppended ==
    /\ call = "isBinary"
    /\ Len(result) = 1
    /\ "more" \in DOMAIN args
    /\ result' = Append(result, isBinary(args.data \o args.more))
    /\ UNCHANGED <<call, args, connection, server>>

AppendSpec == AppendInit /\ [][CallIsBinary \/ CallIsBinaryAppended]_vars

(***************************************************************************)
(* parseMultipartBody(body, boundary) on its own, called on a form and on  *)
(* its twin: the same form with other bytes, as many, in its file parts.   *)
(***************************************************************************)
\* the most parts of a form
MaxFormParts == 2

\* file contents and their twins: nothing, a text found nowhere else in a
\* form, a text holding what reads like a boundary but is none
FileContents ==
    {<<"", "">>, <<"SECRET", "public">>, <<"S\r\n--bX", "p\r\n--bY">>}

\* the parts tried: files with and without a Content-Type, a text field, a
\* binary field, a field whose text ends the form
FormPartsTried ==
    {[name |-> "up", filename |-> "x.bin", ct |-> ct, data |-> d[1], twin |-> d[2]] :
         ct \in {"", "text/plain"}, d \in FileContents}
    \cup {[name |-> "f", filename |-> "", ct |-> "", data |-> d, twin |-> d] :
              d \in {"v", SubSeq(CtlBytes, 1, 2), "v\r\n--b--\r\n"}}

RECURSIVE Forms(_)
\* the forms of n parts
Forms(n) == IF n = 0 THEN {<<>>} ELSE {Append(f, p) : f \in Forms(n - 1), p \in FormPartsTried}

RECURSIVE WriteForm(_, _)
\* the multipart/form-data body of a form with boundary "b", each part with
\* its data or with its twin's
WriteForm(form, twin) ==
    IF form = <<>> THEN "--b--\r\n"
    ELSE "--b\r\nContent-Disposition: form-data; name=\"" \o form[1].name \o "\""
         \o (IF form[1].filename = "" THEN "" ELSE "; filename=\"" \o form[1].filename \o "\"")
         \o "\r\n"
         \o (IF form[1].ct = "" THEN "" ELSE "Content-Type: " \o form[1].ct \o "\r\n")
         \o "\r\n" \o (IF twin THEN form[1].twin ELSE form[1].data) \o "\r\n"
         \o WriteForm(Tail(form), twin)

MultipartInit ==
    /\ NoConnection /\ NoServer
    /\ call = "parseMultipartBody"
    /\ \E n \in 0..MaxFormParts : \E form \in Forms(n) :
         args = [body |-> WriteForm(form, FALSE), twin |-> WriteForm(form, TRUE), boundary |-> "b"]
    /\ result = <<>>

CallParseMultipart ==
    Call("parseMultipartBody",
         [summary |-> parseMultipartBody(args.body, args.boundary),
          twin |-> parseMultipartBody(args.twin, args.boundary)])

MultipartSpec == MultipartInit /\ [][CallParseMultipart]_vars

(***************************************************************************)
(* sanitizeBody(body, contentType) on its own.                             *)
(***************************************************************************)
\* the Content-Type values tried, each with whether mime.ParseMediaType
\* makes of it a multipart/ type with a boundary: none, a text type, form
\* data with the boundary "b" (plainly, in upper case and quoted, after
\* another parameter and before a trailing semicolon), form data with no
\* boundary, and values mime.ParseMediaType rejects (a parameter with no
\* value, a parameter given twice, a type with no subtype)
ContentTypesTried ==
    {[text |-> "", multipart |-> FALSE],
     [text |-> "text/plain", multipart |-> FALSE],
     [text |-> "multipart/form-data; boundary=b", multipart |-> TRUE],
     [text |-> "MULTIPART/Form-Data; BOUNDARY=\"b\"", multipart |-> TRUE],
     [text |-> "multipart/mixed; charset=utf-8; boundary=b;", multipart |-> TRUE],
     [text |-> "multipart/form-data", multipart |-> FALSE],
     [text |-> "multipart/form-data; boundary", multipart |-> FALSE],
     [text |-> "multipart/form-data; boundary=b; boundary=b", multipart |-> FALSE],
     [text |-> "multipart/; boundary=b", multipart |-> FALSE]}

\* the most parts of a form sent as a body
MaxBodyParts == 1

\* the bodies tried: none, a text, a binary blob, the forms
BodiesTried ==
    {"", "hello", Sample(10, 5)}
    \cup {WriteForm(form, FALSE) : form \in UNION {Forms(n) : n \in 0..MaxBodyParts}}

SanitizeInit ==
    /\ NoConnection /\ NoServer
    /\ call = "sanitizeBody"
    /\ \E body \in BodiesTried, ct \in ContentTypesTried :
         args = [body |-> body, contentType |-> ct.text, multipart |-> ct.multipart]
    /\ result = <<>>

CallSanitizeBody == Call("sanitizeBody", sanitizeBody(args.body, args.contentType))

SanitizeSpec == SanitizeInit /\ [][CallSanitizeBody]_vars

(***************************************************************************)
(* parseICAP(raw) on its own, called on a REQMOD whose req-hdr section is  *)
(* a request with a given target, Host header and X-Forwarded-Proto.       *)
(***************************************************************************)
\* the hosts of the Host header: none, one
HostHeaders == {"", "h.com"}

\* the values of the X-Forwarded-Proto header lines, in order
ForwardedProtos ==
    {<<>>, <<"https">>, <<"http">>, <<"HTTPS">>, <<"http", "https">>, <<"https", "http">>}

\* the request targets tried: [method, target, host, uri], host the host the
\* target names ("" for none), uri its path and query ("/" for an empty
\* path)
TargetsTried ==
    {[method |-> "GET", target |-> t, host |-> "", uri |-> t] : t \in {"/p?q=1", "/", "/a/b"}}
    \cup {[method |-> "GET", target |-> s \o "://a.com" \o t, host |-> "a.com",
           uri |-> IF HasPrefix(t, "/") THEN t ELSE "/" \o t] :
              s \in {"http", "https"}, t \in {"", "/p?q=1", "?q=1"}}
    \cup {[method |-> "OPTIONS", target |-> "*", host |-> "", uri |-> "*"],
          [method |-> "CONNECT", target |-> "e.com:443", host |-> "e.com:443", uri |-> "/"]}

RECURSIVE HeaderLines(_, _)
\* one header line per value
HeaderLines(key, values) ==
    IF values = <<>> THEN ""
    ELSE key \o ": " \o values[1] \o CRLF \o HeaderLines(key, Tail(values))

\* the req-hdr section: request line, headers, empty line
RequestBlock(t, hostHeader, protos) ==
    t.method \o " " \o t.target \o " HTTP/1.1" \o CRLF
        \o HeaderLines("Host", IF hostHeader = "" THEN <<>> ELSE <<hostHeader>>)
        \o HeaderLines("X-Forwarded-Proto", protos) \o CRLF

DestinationInit ==
    /\ NoConnection /\ NoServer
    /\ call = "parseICAP"
    /\ \E t \in TargetsTried, hostHeader \in HostHeaders, protos \in ForwardedProtos :
         args = [target |-> t, hostHeader |-> hostHeader, protos |-> protos,
                 raw |-> Bytes(WellFormed(ReqmodLine,
                                          <<[name |-> "req-hdr",
                                             bytes |-> RequestBlock(t, hostHeader, protos)]>>,
                                          "null-body", <<>>))]
    /\ result = <<>>

CallParseICAP == Call("parseICAP", parseICAP(args.raw))

DestinationSpec == DestinationInit /\ [][CallParseICAP]_vars

(***************************************************************************)
(* The process as a whole (src/main.go, src/logger.go): main, the handlers *)
(* of the connections it accepts and the rotatingWriter they log through.  *)
(* A handler is followed from Accept to its return; of its work only the   *)
(* Write of its log entry is split into steps.                             *)
(***************************************************************************)
\* the most connections accepted
MaxHandlers == 2

\* the last second of the clock
MaxSeconds == 1

\* w.maxSize, in bytes
MaxLogSize == 3

\* len(p): the length of every entry, in bytes
EntryLen == 2

Handlers == 1..MaxHandlers

\* nobody holds the mutex
Free == 0

\* main holds the mutex
Main == MaxHandlers + 1

\* cfg.LogFile
Active == "icap.log"

\* w.filename + "." + time.Now().Format("20060102-150405")
Rotated(second) == Active \o "." \o Itoa(second)

\* the entry of handler h, byte by byte
Entry(h) == [i \in 1..EntryLen |-> <<h, i>>]

\* the log file main finds when it starts: none, or one with an entry in it
ServerInit ==
    /\ NoConnection /\ NoCall
    /\ mainPc = "serving" /\ timedOut = FALSE
    /\ handler = [h \in Handlers |-> [pc |-> "idle", n |-> 0]]
    /\ mu = Free
    /\ acceptLoop = [pc |-> "accepting", erred |-> FALSE]
    /\ now = 0
    /\ \E old \in {<<>>, Entry(0)} :
         /\ files = (Active :> old)
         /\ logWriter = [maxSize |-> MaxLogSize, size |-> Len(old), file |-> "open"]

\* the process has not exited: its goroutines run
Running == mainPc \notin {"none", "exited"}

\* handler h moves to pc, having written n bytes
At2(h, pc2, n) == handler' = [handler EXCEPT ![h] = [pc |-> pc2, n |-> n]]

\* a second passes
Tick ==
    /\ Running /\ now < MaxSeconds
    /\ now' = now + 1
    /\ UNCHANGED <<call, args, result, connection, acceptLoop, mainPc, timedOut, handler, mu, logWriter, files>>

\* a faulty accept loop: handleConn is called, not started with go, so that
\* Accept is not called again before the handler has returned
AcceptInTurn(h) ==
    /\ mainPc \in {"serving", "signalled"}
    /\ acceptLoop.pc = "accepting"
    /\ handler[h].pc = "idle"
    /\ \A g \in Handlers : handler[g].pc \in {"idle", "done"}
    /\ At2(h, "accepted", 0)
    /\ UNCHANGED <<call, args, result, connection, acceptLoop, mainPc, timedOut, mu, logWriter, files, now>>

\* ln.Accept returns a connection and go handleConn starts; the handler
\* reads and parses its message
Accept(h) ==
    /\ mainPc \in {"serving", "signalled"}
    /\ acceptLoop.pc = "accepting"
    /\ handler[h].pc = "idle"
    /\ At2(h, "accepted", 0)
    /\ UNCHANGED <<call, args, result, connection, acceptLoop, mainPc, timedOut, mu, logWriter, files, now>>

\* ln.Accept returns an error: the loop goes on unless ctx is done, and then
\* the goroutine returns; once ln is closed every Accept returns an error
AcceptError ==
    /\ Running
    /\ acceptLoop.pc = "accepting"
    /\ acceptLoop' = [pc |-> IF mainPc = "serving" THEN "accepting" ELSE "ended", erred |-> TRUE]
    /\ UNCHANGED <<call, args, result, connection, mainPc, timedOut, handler, mu, logWriter, files, now>>

\* a faulty Write: w.mu.Lock() does not wait
LockWithoutWaiting(h) ==
    /\ Running
    /\ handler[h].pc = "accepted"
    /\ mu' = h
    /\ At2(h, "locked", 0)
    /\ UNCHANGED <<call, args, result, connection, acceptLoop, mainPc, timedOut, logWriter, files, now>>

\* Write: w.mu.Lock()
Lock(h) ==
    /\ Running
    /\ handler[h].pc = "accepted"
    /\ mu = Free
    /\ mu' = h
    /\ At2(h, "locked", 0)
    /\ UNCHANGED <<call, args, result, connection, acceptLoop, mainPc, timedOut, logWriter, files, now>>

\* os.Rename(w.filename, newName): the file takes the new name, in place of
\* any file of that name; nothing happens when there is no file to rename
Rename(f, newName) ==
    IF Active \in DOMAIN f
    THEN [name \in (DOMAIN f \ {Active}) \cup {newName} |->
             IF name = newName THEN f[Active] ELSE f[name]]
    ELSE f

\* os.OpenFile(w.filename, O_APPEND|O_CREATE|O_WRONLY): the file is created
\* when there is none
Create(f) == IF Active \in DOMAIN f THEN f ELSE f @@ (Active :> <<>>)

\* Write: the size test and, when it says so, rotate(): close, rename (its
\* error is dropped) and openFile, which may fail
CheckSize(h) ==
    /\ Running
    /\ handler[h].pc = "locked"
    /\ IF logWriter.size + EntryLen > logWriter.maxSize /\ logWriter.size > 0
       THEN \E renamed \in BOOLEAN, opened \in BOOLEAN :
                LET f == IF renamed THEN Rename(files, Rotated(now)) ELSE files
                IN IF opened
                   THEN /\ files' = Create(f)
                        /\ logWriter' = [logWriter EXCEPT !.file = "open", !.size = Len(Create(f)[Active])]
                        /\ At2(h, "checked", 0)
                   ELSE /\ files' = f
                        /\ logWriter' = [logWriter EXCEPT !.file = "nil"]
                        /\ At2(h, "failed", 0)
       ELSE /\ At2(h, "checked", 0)
            /\ UNCHANGED <<logWriter, files>>
    /\ UNCHANGED <<call, args, result, connection, acceptLoop, mainPc, timedOut, mu, now>>

\* Write: w.file.Write(p), a byte at a time; it fails on a file that is
\* closed or nil, with the bytes written so far
WriteByte(h) ==
    /\ Running
    /\ handler[h].pc = "checked"
    /\ IF logWriter.file = "open" /\ Active \in DOMAIN files
       THEN /\ files' = [files EXCEPT ![Active] = Append(@, Entry(h)[handler[h].n + 1])]
            /\ At2(h, IF handler[h].n + 1 = EntryLen THEN "written" ELSE "checked", handler[h].n + 1)
       ELSE /\ At2(h, "written", handler[h].n)
            /\ UNCHANGED files
    /\ UNCHANGED <<call, args, result, connection, acceptLoop, mainPc, timedOut, mu, logWriter, now>>

\* Write: w.size += int64(n)
AddSize(h) ==
    /\ Running
    /\ handler[h].pc = "written"
    /\ logWriter' = [logWriter EXCEPT !.size = @ + handler[h].n]
    /\ At2(h, "sized", handler[h].n)
    /\ UNCHANGED <<call, args, result, connection, acceptLoop, mainPc, timedOut, mu, files, now>>

\* Write: the deferred w.mu.Unlock()
Unlock(h) ==
    /\ Running
    /\ handler[h].pc \in {"sized", "failed"}
    /\ mu' = Free
    /\ At2(h, "logged", handler[h].n)
    /\ UNCHANGED <<call, args, result, connection, acceptLoop, mainPc, timedOut, logWriter, files, now>>

\* the handler writes its response and returns
Finish(h) ==
    /\ Running
    /\ handler[h].pc = "logged"
    /\ At2(h, "done", handler[h].n)
    /\ UNCHANGED <<call, args, result, connection, acceptLoop, mainPc, timedOut, mu, logWriter, files, now>>

\* main moves from one place to the next
MainStep(from, to) ==
    /\ mainPc = from
    /\ mainPc' = to
    /\ UNCHANGED <<call, args, result, connection, acceptLoop, handler, files, now>>

\* SIGINT or SIGTERM: <-ctx.Done() returns
Signal == MainStep("serving", "signalled") /\ UNCHANGED <<timedOut, mu, logWriter>>

\* ln.Close()
CloseListener == MainStep("signalled", "listenerClosed") /\ UNCHANGED <<timedOut, mu, logWriter>>

\* healthSrv.Shutdown(shutdownCtx) returns: the health server is idle, or
\* the 15 seconds are over
ShutdownHealth ==
    /\ MainStep("listenerClosed", "healthDown")
    /\ timedOut' \in BOOLEAN
    /\ UNCHANGED <<mu, logWriter>>

\* logWriter.Close(): w.mu.Lock()
LockToClose ==
    /\ MainStep("healthDown", "closing")
    /\ mu = Free
    /\ mu' = Main
    /\ UNCHANGED <<timedOut, logWriter>>

\* logWriter.Close(): w.file.Close() and the deferred Unlock
CloseLog ==
    /\ MainStep("closing", "sinkClosed")
    /\ logWriter' = [logWriter EXCEPT !.file = IF @ = "open" THEN "closed" ELSE @]
    /\ mu' = Free
    /\ UNCHANGED timedOut

\* main returns: the process exits, whatever its goroutines are doing
Exit == MainStep("sinkClosed", "exited") /\ UNCHANGED <<timedOut, mu, logWriter>>

ServerNext ==
    \/ Tick
    \/ \E h \in Handlers : Accept(h)
    \/ AcceptError
    \/ \E h \in Handlers : Lock(h)
    \/ \E h \in Handlers : CheckSize(h)
    \/ \E h \in Handlers : WriteByte(h)
    \/ \E h \in Handlers : AddSize(h)
    \/ \E h \in Handlers : Unlock(h)
    \/ \E h \in Handlers : Finish(h)
    \/ Signal
    \/ CloseListener
    \/ ShutdownHealth
    \/ LockToClose
    \/ CloseLog
    \/ Exit

ServerSpec == ServerInit /\ [][ServerNext]_vars

(***************************************************************************)
(* Properties of the reader and the handler.                               *)
(***************************************************************************)
\* the line is a log record, not an error line
IsRecord(line) == "timestamp" \in DOMAIN line

\* the text a reader of the JSON object finds under key: empty when absent
Field(e, key) == IF key \in DOMAIN e THEN e[key] ELSE ""

\* the flag a reader of the JSON object finds under key: false when absent
Flag(e, key) == key \in DOMAIN e /\ e[key]

\* readICAPMessage has returned
ReaderReturned == err # ""

\* the client sends the whole message, then the suffix, and the ceiling admits
\* the message
WholeMessageSent == stream = msg.bytes \o suffix /\ Len(msg.bytes) <= maxSize

\* the reader returned the message and nothing else, took no byte of the suffix
\* from the bufio.Reader and asked for no byte the stream does not hold
ExactFrame == err = "nil" /\ buf = msg.bytes /\ pos = Len(msg.bytes) /\ ~waited

\* C1, as stated: for every well-formed message of at most maxSize bytes followed
\* by any suffix, readICAPMessage returns exactly the message with no error,
\* consumes no byte of the suffix and does not wait for more input.
FramingExact == (msg.wellFormed /\ WholeMessageSent /\ ReaderReturned) => ExactFrame

\* C1, amended: the same for every well-formed message whose Encapsulated header
\* declares no opt-body section (the reader frames req-body and res-body only).
FramingExactWithoutOptBody ==
    (msg.wellFormed /\ msg.body # "opt-body" /\ WholeMessageSent /\ ReaderReturned) => ExactFrame

\* a two-chunk request body, as long as the ceiling allows, framed exactly
\* with a suffix waiting behind it
FramingExactReached ==
    /\ msg.wellFormed /\ msg.body = "req-body" /\ WholeMessageSent /\ ReaderReturned
    /\ suffix # "" /\ Len(msg.bytes) = maxSize
    /\ Contains(msg.bytes, "5\r\n0\r\n\r\n\r\n0\r\n\r\n")
    /\ ExactFrame

\* C2: the process never crashes on malformed input: whatever the client sends,
\* handleConn returns normally (no panic in the handler's goroutine).
NeverCrashes == pc # "crashed"

\* the read deadline could not be set: handleConn returned before reading
ReadDeadlineFailed == pc = "done" /\ err = "" /\ events = <<"close">>

\* C3: at most one response: the handler passes at most one ICAP response to
\* conn.Write, and none only when reading failed or a deadline could not be set.
AtMostOneResponse ==
    /\ Len(wrote) <= 1
    /\ (pc = "done" /\ wrote = <<>>) => (Dropped \/ ReadDeadlineFailed \/ writeDeadline = "failed")

\* a connection that got exactly one response, a 204, written in full
OneResponseReached ==
    pc = "done" /\ Len(wrote) = 1 /\ wrote[1].ok /\ wrote[1].bytes = NoModifications

\* the place of an event in the order read, parse, log, respond, close (the
\* line logged after a failed write is log-error)
Rank(e) ==
    CASE e = "read" -> 1 [] e = "parse" -> 2 [] e = "log" -> 3 [] e = "respond" -> 4
      [] e = "log-error" -> 5 [] e = "close" -> 6 [] OTHER -> 7

Happened(e) == \E i \in 1..Len(events) : events[i] = e

\* C4: within a connection the order is read, parse, log, respond, close: the
\* record's append has returned before the 204 is written, the connection is
\* closed only after the response write has returned, and a connection that
\* was answered 204 went through all five, in that order.
StrictOrder ==
    /\ \A i, j \in 1..Len(events) : i < j => Rank(events[i]) < Rank(events[j])
    /\ Happened("respond") <=> wrote # <<>>
    /\ Happened("close") <=> closed
    /\ sink # <<>> => Happened("log")
    /\ Happened("log") => Happened("parse")
    /\ Happened("parse") => Happened("read")
    /\ (wrote # <<>> /\ wrote[1].bytes = NoModifications) => Happened("log")
    /\ (pc = "done" /\ wrote # <<>> /\ wrote[1].bytes = NoModifications) =>
           events \in {<<"read", "parse", "log", "respond", "close">>,
                       <<"read", "parse", "log", "respond", "log-error", "close">>}

\* a connection that went through read, parse, log, respond and close, the
\* record in the sink and the 204 written
StrictOrderReached ==
    /\ events = <<"read", "parse", "log", "respond", "close">>
    /\ Len(sink) = 1 /\ IsRecord(sink[1])
    /\ Len(wrote) = 1 /\ wrote[1].ok /\ closed

\* the capability reply, as section 6 of the specification spells it
OptionsReply(method) ==
    "ICAP/1.0 200 OK\r\nMethods: " \o method \o "\r\nService: icap-logger/1.0\r\nISTag: \"icap-logger-1.0\"\r\nEncapsulated: null-body=0\r\nMax-Connections: 100\r\nOptions-TTL: 3600\r\nAllow: 204\r\nPreview: 0\r\nTransfer-Complete: *\r\nTransfer-Ignore: jpg,jpeg,gif,png,swf,flv,mp3,mp4,avi,mkv,zip,gz,tar,iso\r\nConnection: close\r\n\r\n"

\* the reply due to the message in buf
OptionsReplyDue ==
    OptionsReply(IF Contains(ToLower(ServiceURL(buf)), "respmod") THEN "RESPMOD" ELSE "REQMOD")

\* the handler wrote the capability reply and nothing else, logged nothing and closed
OptionsAnswered ==
    /\ Len(wrote) = 1 /\ wrote[1].bytes = OptionsReplyDue
    /\ sink = <<>>
    /\ closed

\* C5, as stated: for every message read without error whose first line starts
\* with "OPTIONS ", the handler writes exactly the fixed capability reply
\* (Methods: RESPMOD when the request URI contains "respmod" in any case, else
\* Methods: REQMOD), appends nothing to the log sink and closes the connection.
OptionsReplyFixed ==
    (pc = "done" /\ err = "nil" /\ HasPrefix(FirstLine(buf), "OPTIONS ")) => OptionsAnswered

\* C5, amended: for every message read without error whose first line, with the
\* surrounding white space trimmed, starts with "OPTIONS ", the handler logs
\* nothing and closes the connection, having written exactly the fixed
\* capability reply if the write deadline could be set and nothing if not.
OptionsReplyFixedWhenTrimmed ==
    (pc = "done" /\ err = "nil" /\ HasPrefix(TrimSpace(FirstLine(buf)), "OPTIONS ")) =>
        /\ sink = <<>>
        /\ closed
        /\ writeDeadline \in {"set", "failed"}
        /\ writeDeadline = "set" => OptionsAnswered
        /\ writeDeadline = "failed" => wrote = <<>>

\* an OPTIONS request for a service named RespMod, answered Methods: RESPMOD
OptionsReplyReached ==
    /\ pc = "done" /\ err = "nil" /\ HasPrefix(TrimSpace(FirstLine(buf)), "OPTIONS ")
    /\ writeDeadline = "set" /\ OptionsAnswered
    /\ Contains(wrote[1].bytes, "Methods: RESPMOD\r\n")
    /\ Contains(buf, "RespMod")

\* the decoded request body: decodeChunked over the req-body section
DecodedReqBody == EncapsulatedBody(info.sections, "req-body").out

\* the record carries the tunnel marker
TunnelMarked(e) == Flag(e, "tunneled") /\ Field(e, "req_body") = TunnelPlaceholder

\* the records in the sink
Records == {sink[i] : i \in {j \in 1..Len(sink) : IsRecord(sink[j])}}

\* C6, as stated: the emitted record has tunneled=true and req_body equal to the
\* placeholder if and only if the reconstructed request method is CONNECT and
\* the decoded request body is empty.
TunnelMarker ==
    \A e \in Records : TunnelMarked(e) <=> (info.reqMethod = "CONNECT" /\ DecodedReqBody = "")

\* C6, amended: the emitted record has tunneled=true and req_body equal to the
\* placeholder if and only if the reconstructed request method is CONNECT and
\* the decoded request body is empty or is itself the placeholder text.
TunnelMarkerOrMarkerBody ==
    \A e \in Records :
        TunnelMarked(e) <=>
            (info.reqMethod = "CONNECT" /\ (DecodedReqBody = "" \/ info.reqBody = TunnelPlaceholder))

\* a CONNECT whose req-body section decodes to nothing, logged with the marker
TunnelMarkerReached ==
    /\ \E e \in Records : TunnelMarked(e)
    /\ info.reqMethod = "CONNECT"
    /\ "req-body" \in DOMAIN info.sections
    /\ DecodedReqBody = ""

\* C7: size ceiling: the byte slice readICAPMessage returns, with or without an
\* error, is at most maxSize bytes long.
SizeCeiling == ReaderReturned => Len(buf) <= maxSize

HeaderPhases == {"phase1", "phase2", "phase3"}

\* C8: when the cumulative byte count exceeds maxSize in phases 1 to 3,
\* readICAPMessage fails with the size error, keeping what it had, and the
\* handler drops the message: it appends nothing to the log sink, writes no
\* response and closes the connection.
SizeErrorDrops ==
    /\ [][(pc \in HeaderPhases /\ total' > maxSize) =>
              (err' = "size" /\ pc' = "returned" /\ buf' = buf)]_vars
    /\ [][(pc = "returned" /\ err = "size") =>
              (pc' = "done" /\ closed' /\ sink' = <<>> /\ wrote' = <<>>)]_vars
    /\ [](err = "size" =>
              /\ total > maxSize
              /\ pc \in {"returned", "done"}
              /\ sink = <<>> /\ wrote = <<>>
              /\ pc = "done" => closed)

\* a message dropped for its size after its ICAP headers were read whole
SizeErrorReached ==
    /\ pc = "done" /\ err = "size" /\ closed
    /\ sink = <<>> /\ wrote = <<>>
    /\ Contains(buf, "\r\n\r\n")

\* the chunk would take the count past maxSize: total+size > maxSize over the integers
WouldExceedMax(t, size) ==
    Gt64(size, Zero64) /\ (~IsSmall64(size) \/ t + ToInt(size) > maxSize)

\* C9: when, in the chunked-body phase, the next chunk would take the cumulative
\* byte count past maxSize, readICAPMessage stops and returns what it has
\* accumulated with no error; the handler then still appends a log record and
\* writes the 204 reply (the append and the write as far as the sink and the
\* connection allow).
ChunkOverflowTruncates ==
    /\ [][(/\ pc = "phase4"
           /\ ~ReadString(stream, pos).err
           /\ ChunkSize(ReadString(stream, pos).line).ok
           /\ WouldExceedMax(total + Len(ReadString(stream, pos).line),
                             ChunkSize(ReadString(stream, pos).line).v))
          => (/\ pc' = "returned" /\ err' = "nil" /\ exit' = "ceiling"
              /\ buf' = buf \o ReadString(stream, pos).line)]_vars
    /\ []((pc = "done" /\ exit = "ceiling") =>
              /\ Happened("log")
              /\ writeDeadline = "set" =>
                     (Len(wrote) = 1 /\ wrote[1].bytes = NoModifications))

\* "req-hdr=0, null-body=N"
IsNullBodyValue(v) ==
    /\ HasPrefix(v, "req-hdr=0, null-body=")
    /\ Len(v) > 21
    /\ LeadLen(Drop(v, 21), DecBytes) = Len(v) - 21

\* the message was parsed and both the reader and parseICAP took its
\* Encapsulated value to be "req-hdr=0, null-body=N"
NullBodyMessage ==
    /\ Happened("log")
    /\ IsNullBodyValue(info.encapsulatedHeader)
    /\ encapsulatedVal = "encapsulated: " \o info.encapsulatedHeader

\* b ends with an empty line
EndsWithBlankLine(b) ==
    \/ TrimRightCRLF(b) = "" /\ b # ""
    \/ HasSuffix(b, "\n\r\n")
    \/ HasSuffix(b, "\n\n")

\* C10: null-body preserves headers: for every message whose Encapsulated value
\* is "req-hdr=0, null-body=N", the reader reads the encapsulated request header
\* block, splitEncapsulated yields a req-hdr section (the block) and no
\* null-body section, parseICAP yields a request fragment (method, path,
\* headers) if and only if the block is a valid HTTP/1.1 request, and the
\* request body is empty.
NullBodyKeepsHeaders ==
    NullBodyMessage =>
        /\ EndsWithBlankLine(info.remaining)
        /\ DOMAIN info.sections = {"req-hdr"}
        /\ info.sections["req-hdr"] = info.remaining
        /\ info.reqMethod # "" <=> ReadRequest(info.remaining).ok
        /\ ReadRequest(info.remaining).ok =>
               /\ info.reqMethod = ReadRequest(info.remaining).Method
               /\ info.reqPath = ReadRequest(info.remaining).RequestURI
               /\ info.reqHeaders = ReadRequest(info.remaining).Header
        /\ ~ReadRequest(info.remaining).ok =>
               (info.reqMethod = "" /\ info.reqPath = "" /\ info.reqHeaders = <<>>)
        /\ info.reqBody = ""

\* a GET with null-body, its request line and headers in the record
NullBodyReached ==
    /\ NullBodyMessage
    /\ info.reqMethod = "GET" /\ info.reqPath = "/i?q=1"
    /\ info.reqHeaders = <<<<"Accept", "*/*">>>>
    /\ info.destinationURL = "http://e.com/i?q=1"
    /\ \E e \in Records : Field(e, "req_method") = "GET" /\ "req_body" \notin DOMAIN e

(***************************************************************************)
(* Properties of splitEncapsulated.                                        *)
(***************************************************************************)
\* the tokens splitEncapsulated keeps: all but null-body
Kept(layout) == SelectSeq(layout, LAMBDA t : t.name # "null-body")

\* a layout of sections of a buffer of n bytes: it starts at offset 0, its
\* offsets never decrease and lie in the buffer, its names differ, and
\* null-body, if declared, is declared last
SectionsOf(layout, n) ==
    /\ layout # <<>> /\ layout[1].offset = 0
    /\ NonDecreasing(layout)
    /\ \A i \in 1..Len(layout) : layout[i].offset <= n
    /\ DistinctNames(layout)
    /\ \A i \in 1..(Len(layout) - 1) : layout[i].name # "null-body"

\* the sections of the result, one after the other in the order of the tokens
InOrder(sections, tokens) ==
    Concat([i \in 1..Len(tokens) |-> Section(sections, tokens[i].name)])

\* the call returned for a layout of sections of its buffer
SplitOfSections ==
    Returned("splitEncapsulated") /\ SectionsOf(args.layout, Len(args.data))

\* C11, as stated: offset round-trip: each declared section is returned as the
\* bytes from its offset up to the next declared offset (null-body's included;
\* the end of the buffer when nothing is declared after it), and the sections
\* in declaration order make up the prefix of the buffer up to the declared end.
OffsetRoundTrip ==
    SplitOfSections =>
        LET l == args.layout
            n == Len(l)
            declaredEnd == IF l[n].name = "null-body" THEN l[n].offset ELSE Len(args.data)
        IN /\ ~result[1].panic
           /\ \A i \in 1..n :
                  l[i].name # "null-body" =>
                      Section(result[1].sections, l[i].name) =
                          SubSeq(args.data, l[i].offset + 1,
                                 IF i < n THEN l[i + 1].offset ELSE Len(args.data))
           /\ InOrder(result[1].sections, Kept(l)) = Take(args.data, declaredEnd)

\* C11, amended: each declared section other than null-body is returned as the
\* bytes from its offset up to the offset of the next such section, or to the
\* end of the buffer when it is the last of them (the offset of null-body is
\* not used), and these sections in declaration order make up the buffer.
OffsetRoundTripOfKept ==
    SplitOfSections =>
        LET k == Kept(args.layout)
        IN /\ ~result[1].panic
           /\ \A i \in 1..Len(k) :
                  Section(result[1].sections, k[i].name) =
                      SubSeq(args.data, k[i].offset + 1,
                             IF i < Len(k) THEN k[i + 1].offset ELSE Len(args.data))
           /\ k # <<>> => InOrder(result[1].sections, k) = args.data

\* three sections of a three-byte buffer, written loosely, each returned
OffsetRoundTripReached ==
    /\ SplitOfSections
    /\ args.encHeader = " REQ-HDR = 0 , RES-HDR = 1 , REQ-BODY = 2 "
    /\ result[1].sections = [n \in {"req-hdr", "res-hdr", "req-body"} |->
                                 CASE n = "req-hdr" -> "a" [] n = "res-hdr" -> "b" [] OTHER -> "c"]

(***************************************************************************)
(* Properties of decodeChunked.                                            *)
(***************************************************************************)
\* C12: chunked inverse: a body encoded as a single chunk followed by the zero
\* chunk decodes to itself, and so does a body cut into any number of
\* (non-empty) chunks, each encoded in order, followed by the zero chunk.
ChunkedInverse ==
    (/\ Returned("decodeChunked")
     /\ Len(args.chunks) = 1 \/ \A i \in 1..Len(args.chunks) : args.chunks[i] # "")
        => (~result[1].panic /\ result[1].out = Concat(args.chunks))

\* a body of two chunks, the first reading like the end of a body, the second
\* with a two-digit size, decoded whole
ChunkedInverseReached ==
    /\ Returned("decodeChunked")
    /\ args.chunks = <<"0\r\n\r\n", "abcdefghijklmnopqrstuvwxyz">>
    /\ Contains(args.data, "\r\n1a\r\n")
    /\ result[1].out = "0\r\n\r\nabcdefghijklmnopqrstuvwxyz"

(***************************************************************************)
(* Properties of parseMultipartBody.                                       *)
(***************************************************************************)
\* the part carries a filename
IsFilePart(part) == MediaParam(HeaderGet(part.header, "Content-Disposition"), "filename") # ""

\* the two bodies differ at most in the content of their filename-bearing
\* parts, which is as long in the one as in the other
SameButFileContent(a, b) ==
    /\ Len(a) = Len(b)
    /\ \A i \in 1..Len(a) :
           /\ a[i].header = b[i].header
           /\ IF IsFilePart(a[i]) THEN Len(a[i].data) = Len(b[i].data) ELSE a[i].data = b[i].data

\* C13: multipart safety: the summary holds, for a part that carries a
\* filename, its filename, content type and byte length and none of its
\* content; two bodies that differ only in the content of filename-bearing
\* parts (same lengths) have the same summary.
MultipartSafety ==
    Returned("parseMultipartBody") =>
        LET parts == MultipartParts(args.body, args.boundary)
        IN /\ \A i \in 1..Len(parts) :
                  IsFilePart(parts[i]) =>
                      /\ Contains(result[1].summary,
                                  "[file: \"x.bin\", content-type: \""
                                      \o (IF HeaderGet(parts[i].header, "Content-Type") = ""
                                          THEN "application/octet-stream" ELSE "text/plain")
                                      \o "\", " \o Itoa(Len(parts[i].data)) \o " bytes]")
                      /\ parts[i].data = "SECRET" => ~Contains(result[1].summary, "SECRET")
           /\ SameButFileContent(parts, MultipartParts(args.twin, args.boundary)) =>
                  result[1].summary = result[1].twin

\* a text field and a file whose content is SECRET in one body and public in
\* the other: one summary for both, the field in full, the file by its name,
\* type and length
MultipartSafetyReached ==
    /\ Returned("parseMultipartBody")
    /\ Contains(args.body, "\r\n\r\nSECRET\r\n--b--") /\ Contains(args.twin, "\r\n\r\npublic\r\n--b--")
    /\ result[1].summary = "[field: \"f\" = \"v\"]; [file: \"x.bin\", content-type: \"text/plain\", 6 bytes]"
    /\ result[1].twin = result[1].summary

(***************************************************************************)
(* Properties of isBinary.                                                 *)
(***************************************************************************)
\* the first 512 bytes of the input, all of it when it is shorter
SampleOf(data) == IF Len(data) > 512 THEN Take(data, 512) ELSE data

\* C14: isBinary returns true exactly when more than 10% of the sampled
\* bytes (the first 512, all if fewer) are non-printable (below 0x09,
\* between 0x0D and 0x20, or 0x7F); empty input is not binary and bytes
\* beyond the first 512 do not count.
BinaryOverTenPercent ==
    Returned("isBinary") =>
        result[1] = (CountBytes(SampleOf(args.data), NonPrintableBytes) * 10
                         > Len(SampleOf(args.data)))

(***************************************************************************)
(* The end-to-end scenarios.                                               *)
(***************************************************************************)
\* the reader returned the whole of message m and the handler has logged it
Logged(m) == msg.bytes = Bytes(m) /\ err = "nil" /\ buf = Bytes(m) /\ pc \in {"logged", "done"}

\* every response written is the 204 reply
Only204 == \A i \in 1..Len(wrote) : wrote[i].bytes = NoModifications

\* the record of the REQMOD-with-body scenario
SubmitRecord(e) ==
    /\ Field(e, "req_method") = "POST" /\ Field(e, "req_path") = "/submit"
    /\ Field(e, "destination_url") = "http://example.com/submit"
    /\ Field(e, "req_body") = "hello"

\* C15, as stated: scenario 2: for the REQMOD with "Encapsulated: req-hdr=0,
\* req-body=68", the header block POST /submit, Host: example.com,
\* Content-Length: 5 and the chunked body 5/hello/0, the log record contains
\* req_method POST, req_path /submit, destination_url
\* http://example.com/submit and req_body hello, and the response is the 204.
ReqmodWithBody ==
    Logged(ReqmodScenario(68)) => (\A e \in Records : SubmitRecord(e)) /\ Only204

\* C15, amended: the same with "Encapsulated: req-hdr=0, req-body=63", 63
\* being the length of the header block.
ReqmodWithBodyAt63 ==
    Logged(ReqmodScenario(63)) => (\A e \in Records : SubmitRecord(e)) /\ Only204

\* the scenario run to its end: one record, one 204
ReqmodWithBodyReached ==
    /\ Logged(ReqmodScenario(63)) /\ pc = "done"
    /\ Len(sink) = 1 /\ IsRecord(sink[1]) /\ SubmitRecord(sink[1])
    /\ wrote = <<[bytes |-> NoModifications, ok |-> TRUE]>>

\* the record of the RESPMOD-with-body scenario
WorldRecord(e) ==
    /\ Field(e, "resp_status") = "200 OK"
    /\ "resp_headers" \in DOMAIN e
    /\ "Content-Type" \in DOMAIN e.resp_headers /\ e.resp_headers["Content-Type"] = "text/plain"
    /\ Field(e, "resp_body") = "world"

\* C16, as stated: scenario 4: for the RESPMOD with "Encapsulated: res-hdr=0,
\* res-body=38", the header block HTTP/1.1 200 OK, Content-Type: text/plain
\* and the chunked body 5/world/0, the log record contains resp_status
\* 200 OK, resp_headers["Content-Type"] text/plain and resp_body world.
RespmodWithBody ==
    Logged(RespmodScenario(38)) => \A e \in Records : WorldRecord(e)

\* C16, amended: the same with "Encapsulated: res-hdr=0, res-body=45", 45
\* being the length of the header block.
RespmodWithBodyAt45 ==
    Logged(RespmodScenario(45)) => \A e \in Records : WorldRecord(e)

\* the scenario run to its end: one record
RespmodWithBodyReached ==
    /\ Logged(RespmodScenario(45)) /\ pc = "done"
    /\ Len(sink) = 1 /\ IsRecord(sink[1]) /\ WorldRecord(sink[1])
    /\ Field(sink[1], "icap_method") = "RESPMOD"

(***************************************************************************)
(* The fields of a log record.                                             *)
(***************************************************************************)
\* the record carries the key exactly when the field of the entry logged
\* is not empty
PresentIfNotEmpty(e, key) ==
    key \in DOMAIN e <=> ~IsEmptyValue(key, JSONFields(LogEntry(info))[key])

\* C20, as stated: every emitted log record contains the fields timestamp
\* and tunneled; every other field is present exactly when its value is
\* non-empty.
RecordFields ==
    \A e \in Records :
        /\ {"timestamp", "tunneled"} \subseteq DOMAIN e
        /\ \A key \in OmitEmptyKeys \ {"tunneled"} : PresentIfNotEmpty(e, key)

\* C20, amended: every emitted log record contains the field timestamp;
\* tunneled is present exactly when it is true, and every other field is
\* present exactly when its value is non-empty.
RecordFieldsButTimestamp ==
    \A e \in Records :
        /\ "timestamp" \in DOMAIN e
        /\ "tunneled" \in DOMAIN e <=> info.reqMethod = "CONNECT"
        /\ \A key \in OmitEmptyKeys : PresentIfNotEmpty(e, key)

\* a record of a POST: no tunneled, no field of the response, the others
RecordFieldsReached ==
    \E e \in Records :
        /\ info.reqMethod = "POST" /\ info.reqBody = "hello"
        /\ DOMAIN e = {"timestamp", "icap_method", "icap_url", "icap_headers", "req_method",
                       "req_path", "destination_url", "req_headers", "req_body"}

(***************************************************************************)
(* Properties of the process as a whole.                                   *)
(***************************************************************************)
\* the handler of connection h has started and not yet returned
InFlight(h) == handler[h].pc \notin {"idle", "done"}

\* C17: graceful drain: after the signal closes the listener, handlers in
\* flight run to completion until the drain timeout expires; the process does
\* not exit and the log sink is not closed while a handler is in flight and
\* the timeout has not expired.
GracefulDrain ==
    (mainPc \in {"sinkClosed", "exited"} /\ ~timedOut) => \A h \in Handlers : ~InFlight(h)

\* handler h is between the Lock and the Unlock of its Write
InWrite(h) == handler[h].pc \in {"locked", "checked", "written", "sized", "failed"}

\* the bytes form whole entries, one after the other
RECURSIVE WholeEntries(_)
WholeEntries(bytes) ==
    \/ bytes = <<>>
    \/ /\ Len(bytes) >= EntryLen
       /\ \E h \in 0..MaxHandlers : SubSeq(bytes, 1, EntryLen) = Entry(h)
       /\ WholeEntries(SubSeq(bytes, EntryLen + 1, Len(bytes)))

\* the bytes of the file, less those of the entry a Write is in the middle of
\* writing at its end
Settled(name) ==
    LET unfinished == {h \in Handlers : handler[h].pc = "checked" /\ handler[h].n > 0}
    IN IF name = Active /\ unfinished # {}
       THEN SubSeq(files[name], 1, Len(files[name]) - handler[CHOOSE h \in unfinished : TRUE].n)
       ELSE files[name]

\* C18: sink serialization: concurrent Write calls exclude each other and
\* rotation (and Close): who is inside Write or Close holds the mutex, so the
\* size counter is read and updated under it; each entry's bytes lie
\* together in one file, not split across a rotation and not mixed with the
\* bytes of another entry.
SinkSerialized ==
    /\ \A h \in Handlers : InWrite(h) => mu = h
    /\ mainPc = "closing" => mu = Main
    /\ \A name \in DOMAIN files : WholeEntries(Settled(name))
    /\ \A h \in Handlers :
           Cardinality({name \in DOMAIN files :
                           \E i \in 1..Len(files[name]) : files[name][i][1] = h}) <= 1

\* two handlers have logged, a rotation between their writes: the entry of one
\* is whole in the rotated file, the entry of the other whole in the new one
SinkSerializedReached ==
    /\ \A h \in Handlers : handler[h].pc = "done" /\ handler[h].n = EntryLen
    /\ \E h \in Handlers, name \in DOMAIN files \ {Active} :
           /\ files[name] = Entry(h)
           /\ \E g \in Handlers \ {h} : files[Active] = Entry(g)

(***************************************************************************)
(* Properties of the destination URL.                                      *)
(***************************************************************************)
\* the host known for the request: that of the target, else the Host header
KnownHost == IF args.target.host # "" THEN args.target.host ELSE args.hostHeader

\* https when the X-Forwarded-Proto header (its first line) is https
ForwardedScheme ==
    IF args.protos # <<>> /\ args.protos[1] = "https" THEN "https" ELSE "http"

\* C19: for a req-hdr section that parses as an HTTP/1.1 request, req_path is
\* the target's path plus query and destination_url is scheme://host and the
\* same path plus query; the scheme is https if and only if the request
\* headers carry X-Forwarded-Proto: https, else http; the host is that of the
\* Host header for an origin-form target, that of the target otherwise;
\* destination_url is unset when no host is known.
DestinationURL ==
    Returned("parseICAP") =>
        /\ result[1].reqMethod = args.target.method
        /\ result[1].reqPath = args.target.uri
        /\ result[1].destinationURL =
               IF KnownHost = "" THEN ""
               ELSE ForwardedScheme \o "://" \o KnownHost \o args.target.uri

\* an absolute-form target with a query, a Host header naming another host,
\* X-Forwarded-Proto: https
DestinationURLReached ==
    /\ Returned("parseICAP")
    /\ args.target.target = "http://a.com/p?q=1" /\ args.hostHeader = "h.com"
    /\ args.protos = <<"https">>
    /\ result[1].reqPath = "/p?q=1"
    /\ result[1].destinationURL = "https://a.com/p?q=1"

(***************************************************************************)
(* Failures after and while reading.                                       *)
(***************************************************************************)
\* C21: any read failure (I/O error or read-deadline expiry) in any of the
\* four phases, also in the middle of a chunk's data, makes readICAPMessage
\* return the bytes read so far with a non-nil error, and the handler exits
\* without appending a log record or writing a response.
ReadFailureDrops ==
    (pc = "done" /\ waited) => (err # "nil" /\ sink = <<>> /\ wrote = <<>>)

\* C22: the errors of a connection after reading (parse failure, JSON
\* failure, response write failure) go to the structured event stream and
\* not to the ICAP data log, so a failed response write adds no line to the
\* data log; none of them crashes the process.
ErrorsOffDataLog ==
    /\ \A i \in 1..Len(sink) : IsRecord(sink[i])
    /\ pc = "crashed" => \A i \in 1..Len(events) : events[i] # "parse"

\* the fields of the record by the part of the message they derive from
FieldsOf(part) ==
    CASE part = "start" -> {"icapMethod", "icapURL"}
      [] part = "req-hdr" -> {"reqMethod", "reqPath", "destinationURL", "reqHeaders"}
      [] part = "res-hdr" -> {"respStatus", "respHeaders"}
      [] OTHER -> {"respBody"}

\* every field of the record
InfoFields ==
    {"icapMethod", "icapURL", "icapHeaders", "reqMethod", "reqPath", "destinationURL",
     "reqHeaders", "reqBody", "respStatus", "respHeaders", "respBody"}

\* the client sent the whole message with that part malformed, the size
\* ceiling allows it, the read deadline was set and the handler has ended
Handled(part) ==
    /\ msg.bytes = Bytes(Malformed(part))
    /\ Len(stream) >= Len(msg.bytes) /\ maxSize >= Len(stream)
    /\ pc \in {"done", "crashed"} /\ events # <<"close">>

\* the fields of that part are unset, the others are those of the message
\* with no part malformed
OnlyThatPartUnset(part) ==
    /\ \A f \in FieldsOf(part) : info[f] = EmptyInfo[f]
    /\ \A f \in InfoFields \ FieldsOf(part) : info[f] = parseICAP(Bytes(Malformed("none")))[f]

\* the handler logged and, its write deadline set, wrote the 204
LoggedAndAnswered ==
    /\ pc = "done"
    /\ \E i \in 1..Len(events) : events[i] = "log"
    /\ writeDeadline = "set" => Len(wrote) = 1 /\ wrote[1].bytes = NoModifications

\* C23: parse failures are non-fatal and local: a malformed ICAP start line,
\* an unparseable req-hdr or res-hdr section, or a malformed chunk size
\* leaves only the fields derived from that part unset; the fields derived
\* from the other sections are populated, one log line is appended and the
\* 204 is written.
ParseFailuresLocal ==
    \A part \in MalformedParts :
        Handled(part) => LoggedAndAnswered /\ OnlyThatPartUnset(part)

(***************************************************************************)
(* The reader's chunk framing against decodeChunked.                       *)
(***************************************************************************)
\* the reader has framed the whole body of the message with chunk extensions
FramedWithExtensions ==
    /\ msg.bytes = Bytes(WithExtensions)
    /\ pc \in {"logged", "done"}
    /\ exit = "last-chunk"
    /\ buf = msg.bytes

\* C24: decodeChunked strips ';' chunk extensions like the reader, so a chunked
\* body the reader frames decodes to the concatenation of its chunk data: the
\* body "5;x=1" "hello" "0; ieof" is logged as "hello".
ExtensionsDecoded ==
    FramedWithExtensions
        => (/\ decodeChunked(Drop(buf, Len(buf) - Len("5;x=1\r\nhello\r\n0; ieof\r\n\r\n"))).out = "hello"
            /\ info.reqBody = "hello")

\* C25: decodeChunked stops at the first zero-size chunk, malformed size line
\* or short read, and returns exactly the concatenation of the data of the
\* complete chunks before that point: nothing of an incomplete chunk, nothing
\* after the zero chunk.
StopsAtFirst ==
    Returned("decodeChunked") /\ "stop" \in DOMAIN args
        => (~result[1].panic /\ result[1].out = Concat(args.chunks))

\* the same for every stop but the negative size
StopsAtFirstButNegative ==
    Returned("decodeChunked") /\ "stop" \in DOMAIN args /\ ~HasPrefix(args.stop, "-")
        => (~result[1].panic /\ result[1].out = Concat(args.chunks))

(***************************************************************************)
(* Properties of splitEncapsulated over any tokens.                        *)
(***************************************************************************)
\* the token is of the form name=offset with a decimal offset
IsNameOffset(token) ==
    LET kv == SplitN2(token, "=")
    IN /\ Len(kv) = 2
       /\ kv[2] # ""
       /\ \A i \in 1..Len(kv[2]) : At(kv[2], i) \in DecBytes \/ (i = 1 /\ At(kv[2], i) = "-")

\* the call has returned, and some token of the value is not of that form
SplitOfOtherTokens ==
    /\ Returned("splitEncapsulated")
    /\ "tokens" \in DOMAIN args
    /\ \E i \in 1..Len(args.tokens) : ~IsNameOffset(args.tokens[i])

\* C26: a token that is not of the form name=offset with a decimal offset (no
\* '=', an empty or a non-numeric offset) is silently dropped: the result is
\* that of the value without the token, so the token produces no section and
\* moves no bound of another section.
OtherTokensDropped ==
    SplitOfOtherTokens
        => result[1] = splitEncapsulated(args.data, JoinWith(SelectSeq(args.tokens, IsNameOffset), ", "))

\* the same for the tokens with no '=' alone
HasEquals(token) == Len(SplitN2(token, "=")) = 2

TokensWithoutEqualsDropped ==
    (Returned("splitEncapsulated") /\ "tokens" \in DOMAIN args)
        => result[1] = splitEncapsulated(args.data, JoinWith(SelectSeq(args.tokens, HasEquals), ", "))

\* the names the tokens of the form name=... declare, in lower case
DeclaredNames(tokens) ==
    {TrimSpace(ToLower(SplitN2(tokens[i], "=")[1])) : i \in {j \in 1..Len(tokens) : HasEquals(tokens[j])}}

SectionNames == {"req-hdr", "res-hdr", "req-body", "res-body"}

\* the call over any tokens has returned
SplitOfTokens == Returned("splitEncapsulated") /\ "tokens" \in DOMAIN args

\* C27, as stated: the mapping returned by splitEncapsulated has keys only
\* among req-hdr, res-hdr, req-body and res-body: null-body, opt-body and
\* unknown names never appear as a section.
KeysAmongSectionNames ==
    SplitOfTokens => DOMAIN result[1].sections \subseteq SectionNames

\* C27, amended: the keys of the mapping are among the names the value
\* declares other than null-body, whatever the names are: null-body never
\* appears, opt-body and unknown names are sliced like the four sections.
KeysAmongDeclaredNames ==
    SplitOfTokens => DOMAIN result[1].sections \subseteq (DeclaredNames(args.tokens) \ {"null-body"})

\* a value that declares null-body and an unknown name: the unknown name is a
\* key, null-body is not
KeysAmongDeclaredNamesReached ==
    /\ SplitOfTokens
    /\ args.data = "abc"
    /\ args.tokens = <<"null-body=0", "x=1">>
    /\ result[1].sections = ("x" :> "bc")

\* parts[i] is the last part of its name that lies inside a buffer of n bytes
LastInside(parts, i, n) ==
    /\ parts[i].offset < n
    /\ \A j \in (i + 1)..Len(parts) : parts[j].name = parts[i].name => parts[j].offset >= n

\* the end of parts[i] as declared: the offset of the next part, the end of a
\* buffer of n bytes for the last part
DeclaredEnd(parts, i, n) == IF i < Len(parts) THEN parts[i + 1].offset ELSE n

\* the edge cases for the parts of a value, a buffer and a result r
EdgeCasesOf(parts, data, encHeader, r, names) ==
    /\ (data = "" \/ encHeader = "") => (r.sections = NoSections /\ ~r.panic)
    /\ \A name \in names :
           (\A i \in 1..Len(parts) : parts[i].name = name => parts[i].offset >= Len(data))
               => name \notin DOMAIN r.sections
    /\ (data # "" /\ ~r.panic)
           => \A i \in 1..Len(parts) :
                  LastInside(parts, i, Len(data))
                      => r.sections[parts[i].name]
                             = SubSeq(data, parts[i].offset + 1,
                                      Min(DeclaredEnd(parts, i, Len(data)), Len(data)))

\* C28: edge cases of splitEncapsulated: an empty buffer or an empty
\* Encapsulated value yields an empty mapping; a section whose offset is at or
\* past the end of the buffer is dropped; a section whose end lies beyond the
\* buffer is cut at the end of the buffer; the sections are copies, the
\* buffer is as it was.
EdgeCases ==
    SplitOfTokens
        => EdgeCasesOf(EncParts(args.tokens), args.data, args.encHeader, result[1],
                       DeclaredNames(args.tokens))

\* the buffer of three bytes with sections declared at 1 and 9: the first is
\* cut at the end of the buffer, the second is dropped
EdgeCasesReached ==
    /\ SplitOfTokens
    /\ args.data = "abc"
    /\ args.tokens = <<"res-hdr=1", "res-body=9">>
    /\ result[1] = [panic |-> FALSE, sections |-> ("res-hdr" :> "bc")]

\* the slices the loop takes over the parts of a value and a buffer of n
\* bytes lie inside the buffer
SlicesInside(parts, n) ==
    \A i \in 1..Len(parts) :
        ~SliceSkipped(parts, i, n)
            => (/\ 0 <= SliceStart(parts, i)
                /\ SliceStart(parts, i) <= SliceEnd(parts, i, n)
                /\ SliceEnd(parts, i, n) <= n)

\* C29: layout invariant: the (name, offset) sequence splitEncapsulated
\* slices by has non-negative, non-decreasing offsets, so every slice
\* satisfies 0 <= start <= end <= len(buffer); a value that breaks the order
\* yields no slice with start > end or start < 0 (and so no panic).
LayoutInvariant ==
    (SplitOfTokens /\ args.data # "" /\ args.encHeader # "")
        => (/\ SlicesInside(EncParts(args.tokens), Len(args.data))
            /\ ~result[1].panic)

(***************************************************************************)
(* isBinary as bytes are appended.                                         *)
(***************************************************************************)
\* both calls have returned
ClassifiedTwice == call = "isBinary" /\ Len(result) = 2

\* C30: binary classifier monotonicity: for a sample of at most 512 bytes,
\* appending printable bytes never changes the result of isBinary from text to
\* binary, and appending non-printable bytes never changes it from binary to
\* text.
ClassifierMonotone ==
    (ClassifiedTwice /\ Len(args.data) <= 512)
        => (/\ (args.kind = "printable" /\ ~result[1]) => ~result[2]
            /\ (args.kind = "non-printable" /\ result[1]) => result[2])

\* a sample of ten bytes with one non-printable byte is text, and still text
\* with printable bytes appended that bring the sample to twelve bytes
ClassifierMonotoneReached ==
    /\ ClassifiedTwice
    /\ args.data = Sample(10, 1)
    /\ args.more = "\t\n"
    /\ result = <<FALSE, FALSE>>

\* a sample of 510 bytes with 57 non-printable bytes is binary, and still
\* binary with four non-printable bytes appended, two of them past byte 512
ClassifiedPastSample ==
    /\ ClassifiedTwice
    /\ args.data = Sample(486, 50) \o Sample(24, 7)
    /\ args.more = Sample(4, 4)
    /\ result = <<TRUE, TRUE>>

(***************************************************************************)
(* Properties of sanitizeBody.                                             *)
(***************************************************************************)
\* C31: sanitizeBody returns one of four shapes, chosen in this order: the
\* empty string for an empty body; the multipart summary when the
\* Content-Type parses to a multipart/ type with a boundary; "[binary: N
\* bytes]" when isBinary is true; otherwise the body as it is.  A multipart
\* Content-Type with no boundary, or one that does not parse, falls through
\* to the last two.
SanitizeShapes ==
    Returned("sanitizeBody")
        => result[1] = (IF args.body = "" THEN ""
                        ELSE IF args.multipart THEN parseMultipartBody(args.body, "b")
                        ELSE IF isBinary(args.body)
                             THEN "[binary: " \o Itoa(Len(args.body)) \o " bytes]"
                        ELSE args.body)

\* a binary blob sent as form data is summarised as a form of no parts
SanitizeShapesReached ==
    /\ Returned("sanitizeBody")
    /\ args.body = Sample(10, 5)
    /\ args.contentType = "MULTIPART/Form-Data; BOUNDARY=\"b\""
    /\ result[1] = "[multipart: 0 parts, 10 bytes]"

\* a form sent with no boundary in its Content-Type is logged as it is
FormWithoutBoundaryVerbatim ==
    /\ Returned("sanitizeBody")
    /\ args.body = "--b--\r\n"
    /\ args.contentType = "multipart/form-data"
    /\ result[1] = "--b--\r\n"

(***************************************************************************)
(* A CONNECT that comes with a request body.                               *)
(***************************************************************************)
\* C32: when the reconstructed request method is CONNECT and the proxy
\* forwarded bytes as a request body, those bytes are dropped: the record
\* does not carry them as req_body, and tunneled is true only when the
\* request body is empty.
TunnelBodyDropped ==
    \A e \in Records :
        (info.reqMethod = "CONNECT" /\ DecodedReqBody # "")
            => (Field(e, "req_body") # DecodedReqBody /\ ~Flag(e, "tunneled"))

\* the same for the bytes alone: the record does not carry them
TunnelBodyNotLogged ==
    \A e \in Records :
        (info.reqMethod = "CONNECT" /\ DecodedReqBody # "") => Field(e, "req_body") # DecodedReqBody

\* the same for the flag alone: tunneled only with an empty body
TunneledOnlyWhenEmpty ==
    \A e \in Records : Flag(e, "tunneled") => DecodedReqBody = ""

(***************************************************************************)
(* Termination of the handler.                                             *)
(***************************************************************************)
\* C33: every handler eventually comes to its end with its connection closed
\* on every path (deadline-set failure, read error or timeout, size overflow,
\* OPTIONS, normal 204, write failure), each blocking read and write
\* returning once its deadline fires; no path leaves the connection open.
\* The end is the return of handleConn or, on a panic, the end of the
\* process after the deferred Close.
HandlerTerminates == <>(Finished /\ closed)

\* the client went silent in the middle of its message: the read returned
\* and the handler has closed the connection
ClosedAfterSilence == pc = "done" /\ closed /\ waited /\ stream # ""

\* the handler has returned without a panic
HandlerReturns == <>(pc = "done" /\ closed)

\* the next step of handler g, once it is started
StepOf(g) ==
    \/ Lock(g)
    \/ CheckSize(g)
    \/ WriteByte(g)
    \/ AddSize(g)
    \/ Unlock(g)
    \/ Finish(g)

\* C34: handlers are independent: while the handler of one connection is
\* blocked in its read, the accept loop can accept any other connection and
\* the other handlers can take their next step, waiting for nothing but the
\* mutex of the log sink, which a handler that is reading never holds; an
\* Accept error before the cancellation signal does not end the accept loop.
HandlersIndependent ==
    /\ \A h \in Handlers : handler[h].pc = "accepted" =>
         /\ mu # h
         /\ \A g \in Handlers \ {h} :
              /\ (handler[g].pc = "idle" /\ acceptLoop.pc = "accepting"
                      /\ mainPc \in {"serving", "signalled"}) => ENABLED Accept(g)
              /\ (Running /\ handler[g].pc \notin {"idle", "done"} /\ mu \in {Free, g})
                     => ENABLED StepOf(g)
    /\ acceptLoop.pc = "ended" => mainPc # "serving"

\* after an Accept error and before the signal, a second connection has been
\* accepted, logged in full and answered while the first handler is still
\* reading
AnsweredBesideBlocked ==
    /\ mainPc = "serving"
    /\ acceptLoop = [pc |-> "accepting", erred |-> TRUE]
    /\ handler[1].pc = "accepted"
    /\ handler[2] = [pc |-> "done", n |-> EntryLen]

\* C35: in the chunked-body phase, for every chunk-size line that parses as a
\* signed 64-bit hexadecimal integer, the guard total+size > maxSize is
\* evaluated without overflow and the reader allocates a buffer and reads
\* chunk data only when size > 0 and total+size <= maxSize; a negative or
\* overflowing size never leads to an allocation of negative or wrapped length.
ChunkGuardExact ==
    [][(/\ pc = "phase4"
        /\ ~ReadString(stream, pos).err
        /\ ChunkSize(ReadString(stream, pos).line).ok
        /\ (pc' = "crashed" \/ pc' = "phase4" \/ exit' = "short-chunk"))
       => (/\ pc' # "crashed"
           /\ Gt64(ChunkSize(ReadString(stream, pos).line).v, Zero64)
           /\ ~WouldExceedMax(total + Len(ReadString(stream, pos).line),
                              ChunkSize(ReadString(stream, pos).line).v))]_vars

\* the allocation alone: no chunk-size line makes it panic
ChunkAllocNeverPanics ==
    [][pc = "phase4" => pc' # "crashed"]_vars

\* the sizes above zero alone: chunk data is read only within maxSize
PositiveChunksWithinMax ==
    [][(/\ pc = "phase4"
        /\ ~ReadString(stream, pos).err
        /\ ChunkSize(ReadString(stream, pos).line).ok
        /\ Gt64(ChunkSize(ReadString(stream, pos).line).v, Zero64)
        /\ (pc' = "phase4" \/ exit' = "short-chunk"))
       => ~WouldExceedMax(total + Len(ReadString(stream, pos).line),
                          ChunkSize(ReadString(stream, pos).line).v)]_vars

\* where parseICAP's header loop ends in raw, and the Encapsulated value it keeps
ParsedHeader(raw) == IcapHeaderLoop(raw, Len(ReadString(raw, 0).line), <<>>, "")

\* the value in the line readICAPMessage kept, "" when it kept none
ValueOf(line) == IF line = "" THEN "" ELSE TrimSpace(Drop(line, Len("encapsulated:")))

\* the reader leaves step 1 at the blank line that ends the ICAP headers
EndsIcapHeaders == pc = "phase1" /\ pc' # "phase1" /\ err' \notin {"size", "io"}

\* C36: readICAPMessage and parseICAP agree on the ICAP header section of
\* every message: both end it at the same first empty line, so that the
\* buffer the reader framed after that line is the buffer the Encapsulated
\* offsets are applied to, and both retain the same Encapsulated header value,
\* letter case aside.
HeaderSectionsAgree ==
    [][EndsIcapHeaders =>
          /\ ParsedHeader(buf').p = Len(buf')
          /\ ToLower(ParsedHeader(buf').enc) = ValueOf(encapsulatedVal)]_vars

\* the same for the messages RFC 3507 allows
WellFormedHeaderSectionsAgree ==
    [][(EndsIcapHeaders /\ msg.wellFormed) =>
          /\ ParsedHeader(buf').p = Len(buf')
          /\ ToLower(ParsedHeader(buf').enc) = ValueOf(encapsulatedVal)]_vars

\* the end of the section alone
HeaderSectionsEndTogether ==
    [][EndsIcapHeaders => ParsedHeader(buf').p = Len(buf')]_vars

\* the value alone, where the section ends at the same line
EncapsulatedValuesAgree ==
    [][(EndsIcapHeaders /\ ParsedHeader(buf').p = Len(buf')) =>
          ToLower(ParsedHeader(buf').enc) = ValueOf(encapsulatedVal)]_vars

\* the entry of handler h lies whole in one of the files
Appended(h) ==
    \E name \in DOMAIN files : \E i \in 0..(Len(files[name]) - EntryLen) :
        SubSeq(files[name], i + 1, i + EntryLen) = Entry(h)

\* C37: whenever a handler writes the 204 reply, the log record of its
\* connection has been appended to the log sink beforehand: a sink write that
\* fails (a rotation that fails, a sink that shutdown has closed) is never
\* followed by a 204 for that connection.
LoggedBefore204 ==
    \A h \in Handlers : handler[h].pc = "done" => (handler[h].n = EntryLen /\ Appended(h))

\* the same while the sink is open: no 204 after a rotation that failed
LoggedBefore204WhileOpen ==
    \A h \in Handlers :
        (handler[h].pc = "done" /\ mainPc \in {"serving", "signalled", "listenerClosed", "healthDown"})
            => handler[h].n = EntryLen

\* the same while the file can be opened: no 204 after a write to a closed sink
LoggedBefore204AfterClose ==
    \A h \in Handlers :
        (handler[h].pc = "done" /\ logWriter.file # "nil") => handler[h].n = EntryLen

\* the files that hold the entry of handler h (0: the entry found at the start)
HoldersOf(h) ==
    {name \in DOMAIN files : \E i \in 0..(Len(files[name]) - EntryLen) :
        SubSeq(files[name], i + 1, i + EntryLen) = Entry(h)}

\* the Write of handler h has returned len(p) and no error
Written(h) == handler[h].pc \in {"sized", "logged", "done"} /\ handler[h].n = EntryLen

\* every entry a Write has taken in full is in exactly one file
WrittenEntriesKept ==
    \A h \in Handlers : Written(h) => Cardinality(HoldersOf(h)) = 1

\* a rotated file stays as it is, whatever step is taken
RotatedFilesKept ==
    [][\A name \in DOMAIN files \ {Active} :
           name \in DOMAIN files' /\ files'[name] = files[name]]_vars

\* C38: rotation never loses log data: after any sequence of Write calls and
\* rotations every entry passed to a successful Write is present in exactly
\* one file, the active file or a rotated one, and a rotation never
\* overwrites or discards an earlier rotated file, two rotations within the
\* same clock second included.
RotationKeepsData == []WrittenEntriesKept /\ RotatedFilesKept

\* no Write is under way: every Write that was called has returned
BetweenWrites == mu = Free

\* the real size of the active log file, 0 when there is none
ActiveSize == IF Active \in DOMAIN files THEN Len(files[Active]) ELSE 0

\* the size counter is the real size of the active file
SizeCounterExact == BetweenWrites => logWriter.size = ActiveSize

\* the active file is within maxSize, or holds a single entry
ActiveWithinMax ==
    BetweenWrites => (ActiveSize <= logWriter.maxSize \/ ActiveSize = EntryLen)

\* the size test of a Write has led to rotate(), and rotate() to a change
Rotates == (\E h \in Handlers : CheckSize(h)) /\ (files' # files \/ logWriter' # logWriter)

\* rotate() is called before the write that would take the file past maxSize,
\* and never on an empty file
RotatesWhenDue ==
    [][/\ Rotates => (ActiveSize > 0 /\ ActiveSize + EntryLen > logWriter.maxSize)
       /\ \A h \in Handlers :
              (CheckSize(h) /\ ActiveSize > 0 /\ ActiveSize + EntryLen > logWriter.maxSize)
                  => handler'[h].pc = "failed" \/ ActiveSize' = 0]_vars

\* C39: rotation size invariant: after every Write the size counter equals
\* the real size of the active log file and the active file is at most
\* maxSize bytes long unless it holds a single entry that is itself larger
\* than maxSize; rotation happens before the write that would exceed maxSize
\* and never on an empty file.
RotationSizeInvariant ==
    /\ [](SizeCounterExact /\ ActiveWithinMax)
    /\ RotatesWhenDue

====
